---------------------------- MODULE Spec2Model ----------------------------
(***************************************************************************)
(* A model of the response generators of coagent-openai-mock               *)
(* (src/src/generators): the completion, chat-completion and embedding     *)
(* generators, the request validation they rely on, and the wall clock     *)
(* some of them read.                                                      *)
(*                                                                         *)
(* Texts are sequences of byte values (the requests drawn here are ASCII,  *)
(* so bytes, chars and lower-casing coincide with the Rust str methods).   *)
(* u64 values and f64 significands do not fit TLC's integers; they are     *)
(* kept as little-endian sequences of 15-bit limbs, and f64 arithmetic is  *)
(* IEEE-754 binary64 with round-to-nearest-even, as the build computes it. *)
(***************************************************************************)
EXTENDS Integers, Sequences, FiniteSets, TLC

VARIABLES now, req, resp, prev, api_key, conns

vars == <<now, req, resp, prev, api_key, conns>>

None == [none |-> TRUE]

Some(v) == [some |-> v]

IsSome(o) == o # None

\* TRUE, for every v. TLC evaluates the arguments and LET definitions of an
\* operator only where they are first used; a loop that tests Evaluated(acc)
\* before its next round has the accumulated value computed round by round, as
\* the code does, and not as one deeply nested expression at the end. For the
\* same end an intermediate value that is used more than once is bound as the
\* element of a one-element set, CHOOSE r \in {f(x) : x \in {e}} : TRUE, which
\* is f(e) with e computed once, before f.
Evaluated(v) == v = v

Min(a, b) == IF a <= b THEN a ELSE b

Max(a, b) == IF a >= b THEN a ELSE b

(***************************************************************************)
(* Natural numbers of any size: little-endian limbs, no leading zero limb. *)
(***************************************************************************)
RECURSIVE IntBits(_)
IntBits(n) == IF n = 0 THEN 0 ELSE 1 + IntBits(n \div 2)

LimbBase == 2^15

LimbBits == IntBits(LimbBase) - 1

RECURSIVE BTrim(_)
BTrim(x) ==
    IF x # <<>> /\ x[Len(x)] = 0 THEN BTrim(SubSeq(x, 1, Len(x) - 1)) ELSE x

BLimb(x, i) == IF i <= Len(x) THEN x[i] ELSE 0

\* n is a TLC integer, 0 <= n < 2^31
BFromInt(n) ==
    BTrim(<<n % LimbBase, (n \div LimbBase) % LimbBase, n \div (LimbBase * LimbBase)>>)

\* x < 2^31
BToInt(x) == BLimb(x, 1) + LimbBase * BLimb(x, 2) + LimbBase * LimbBase * BLimb(x, 3)

RECURSIVE BAddC(_, _, _, _)
BAddC(x, y, i, c) ==
    IF i > Len(x) /\ i > Len(y)
    THEN IF c = 0 THEN <<>> ELSE <<c>>
    ELSE LET s == BLimb(x, i) + BLimb(y, i) + c
         IN  <<s % LimbBase>> \o BAddC(x, y, i + 1, s \div LimbBase)

BAdd(x, y) == BAddC(x, y, 1, 0)

RECURSIVE BSubC(_, _, _, _)
BSubC(x, y, i, c) ==
    IF i > Len(x)
    THEN <<>>
    ELSE LET s == BLimb(x, i) - BLimb(y, i) - c
         IN  IF s < 0
             THEN <<s + LimbBase>> \o BSubC(x, y, i + 1, 1)
             ELSE <<s>> \o BSubC(x, y, i + 1, 0)

\* x - y, for x >= y
BSub(x, y) == BTrim(BSubC(x, y, 1, 0))

RECURSIVE BCmpFrom(_, _, _)
BCmpFrom(x, y, i) ==
    IF i = 0 THEN 0
    ELSE IF x[i] < y[i] THEN -1
    ELSE IF x[i] > y[i] THEN 1
    ELSE BCmpFrom(x, y, i - 1)

\* -1, 0 or 1 as x < y, x = y or x > y
BCmp(x, y) ==
    IF Len(x) < Len(y) THEN -1
    ELSE IF Len(x) > Len(y) THEN 1
    ELSE BCmpFrom(x, y, Len(x))

RECURSIVE BMulSmallC(_, _, _, _)
BMulSmallC(x, k, i, c) ==
    IF i > Len(x)
    THEN IF c = 0 THEN <<>> ELSE <<c>>
    ELSE LET s == x[i] * k + c
         IN  <<s % LimbBase>> \o BMulSmallC(x, k, i + 1, s \div LimbBase)

\* x * k, for 0 <= k < LimbBase
BMulSmall(x, k) == IF k = 0 THEN <<>> ELSE BMulSmallC(x, k, 1, 0)

RECURSIVE BMulFrom(_, _, _)
BMulFrom(x, y, j) ==
    IF j > Len(y) THEN <<>>
    ELSE LET rest == BMulFrom(x, y, j + 1)
         IN  BAdd(BMulSmall(x, y[j]), IF rest = <<>> THEN <<>> ELSE <<0>> \o rest)

BMul(x, y) == IF x = <<>> THEN <<>> ELSE BMulFrom(x, y, 1)

\* x * 2^n
BShl(x, n) ==
    IF x = <<>> THEN <<>>
    ELSE [i \in 1..(n \div LimbBits) |-> 0] \o BMulSmall(x, 2^(n % LimbBits))

\* floor(x / 2^n)
BShr(x, n) ==
    LET q == n \div LimbBits
        r == n % LimbBits
        lo == 2^r
        hi == 2^(LimbBits - r)
    IN  IF q >= Len(x) THEN <<>>
        ELSE BTrim([i \in 1..(Len(x) - q) |->
                      (x[i + q] \div lo) + (BLimb(x, i + q + 1) % lo) * hi])

\* x mod 2^n
BLow(x, n) ==
    LET q == n \div LimbBits
        r == n % LimbBits
    IN  IF q >= Len(x) THEN x
        ELSE BTrim([i \in 1..(q + 1) |-> IF i <= q THEN x[i] ELSE x[i] % (2^r)])

\* the number of bits of x: 0 for 0, else floor(log2 x) + 1
BBits(x) == IF x = <<>> THEN 0 ELSE LimbBits * (Len(x) - 1) + IntBits(x[Len(x)])

BIsOdd(x) == x # <<>> /\ x[1] % 2 = 1

\* One quotient limb of Knuth's algorithm D: the largest q with q * y <= r, for
\* r < y * LimbBase and y's top limb >= LimbBase / 2. The estimate from the top
\* limbs is at most 2 too large.
RECURSIVE BDigitFix(_, _, _)
BDigitFix(r, y, q) ==
    IF BCmp(BMulSmall(y, q), r) > 0 THEN BDigitFix(r, y, q - 1) ELSE q

BDigit(r, y) ==
    LET n == Len(y)
        est == (BLimb(r, n + 1) * LimbBase + BLimb(r, n)) \div y[n]
    IN  BDigitFix(r, y, Min(est, LimbBase - 1))

\* long division of x by y, limb i of x downwards, r the running remainder and
\* quot the quotient limbs found so far (little-endian)
RECURSIVE BDivFrom(_, _, _, _, _)
BDivFrom(x, y, i, r, quot) ==
    IF i = 0 THEN [quot |-> BTrim(quot), rem |-> r]
    ELSE CHOOSE res \in
            {BDivFrom(x, y, i - 1, step.rem, <<step.q>> \o quot) :
               step \in {CHOOSE st \in {[q |-> q, rem |-> BSub(r1, BMulSmall(y, q))] :
                                          r1 \in {BTrim(<<x[i]>> \o r)},
                                          q \in {BDigit(BTrim(<<x[i]>> \o r), y)}} : TRUE}} :
            TRUE

\* floor(x / y) and x mod y, for y > 0: both are scaled by 2^d to bring the top
\* limb of y to LimbBase / 2 or more
BDivScaled(xs, ys, d) ==
    CHOOSE res \in {[quot |-> sc.quot, rem |-> BShr(sc.rem, d)] :
                      sc \in {BDivFrom(xs, ys, Len(xs), <<>>, <<>>)}} : TRUE

BDivMod(x, y) ==
    CHOOSE res \in {BDivScaled(xs, ys, d) :
                      xs \in {BShl(x, LimbBits - IntBits(y[Len(y)]))},
                      ys \in {BShl(y, LimbBits - IntBits(y[Len(y)]))},
                      d \in {LimbBits - IntBits(y[Len(y)])}} : TRUE

\* Newton's iteration for floor(sqrt(n)), from a start x >= sqrt(n)
RECURSIVE BSqrtFrom(_, _)
BSqrtFrom(n, x) ==
    CHOOSE r \in {IF BCmp(y, x) >= 0 THEN x ELSE BSqrtFrom(n, y) :
                    y \in {BShr(BAdd(x, BDivMod(n, x).quot), 1)}} : TRUE

\* floor(sqrt(n))
BSqrt(n) == IF n = <<>> THEN <<>> ELSE BSqrtFrom(n, BShl(<<1>>, (BBits(n) + 1) \div 2))

(***************************************************************************)
(* f64: [s |-> sign bit, m |-> significand, e |-> exponent], the value     *)
(* (-1)^s * m * 2^e, with m of exactly 53 bits, or m = 0 and e = 0 for a   *)
(* zero. The values met here stay far inside the normal range (no          *)
(* subnormal, infinity or NaN arises), so only the rounding to 53 bits is  *)
(* modelled: round to nearest, ties to even.                               *)
(***************************************************************************)
\* q, the significand cut to 53 bits with exponent e, rounded up when up
F64RoundUp(s, q, e, up) ==
    CHOOSE r \in {IF BBits(q1) > 53
                  THEN [s |-> s, m |-> BShr(q1, 1), e |-> e + 1]
                  ELSE [s |-> s, m |-> q1, e |-> e] :
                    q1 \in {IF up THEN BAdd(q, <<1>>) ELSE q}} : TRUE

\* m, of n > 53 bits, cut to 53 bits: k bits are dropped, their value compared
\* with half a unit of the last place kept
F64RoundCut(s, m, e, k) ==
    CHOOSE r \in {F64RoundUp(s, q, e + k, c > 0 \/ (c = 0 /\ BIsOdd(q))) :
                    q \in {BShr(m, k)},
                    c \in {BCmp(BLow(m, k), BShl(<<1>>, k - 1))}} : TRUE

F64RoundBits(s, m, e, n) ==
    IF n = 0 THEN [s |-> s, m |-> <<>>, e |-> 0]
    ELSE IF n <= 53 THEN [s |-> s, m |-> BShl(m, 53 - n), e |-> e - (53 - n)]
    ELSE F64RoundCut(s, m, e, n - 53)

F64Round(s, m, e) ==
    CHOOSE r \in {F64RoundBits(s, x, e, BBits(x)) : x \in {m}} : TRUE

F64Zero == [s |-> 0, m |-> <<>>, e |-> 0]

\* `n as f64` for an integer 0 <= n < 2^53 held as limbs: exact
F64FromNat(b) == F64Round(0, b, 0)

\* the f64 2^k (1.0 is F64Pow2(0), 0.5 is F64Pow2(-1), 2.0 is F64Pow2(1))
F64Pow2(k) == F64Round(0, <<1>>, k)

F64IsZero(a) == a.m = <<>>

F64Neg(a) == CHOOSE r \in {[x EXCEPT !.s = 1 - x.s] : x \in {a}} : TRUE

F64Abs(a) == [a EXCEPT !.s = 0]

F64Mul(a, b) ==
    CHOOSE r \in {F64Round((x.s + y.s) % 2, BMul(x.m, y.m), x.e + y.e) :
                    x \in {a}, y \in {b}} : TRUE

\* the sum of the non-zero a and b, whose significands aligned to the exponent
\* e are x and y
F64AddAligned(a, b, e, x, y) ==
    IF BCmp(x, y) = 0 /\ a.s # b.s THEN F64Zero
    ELSE F64Round(IF a.s = b.s \/ BCmp(x, y) > 0 THEN a.s ELSE b.s,
                  IF a.s = b.s THEN BAdd(x, y)
                  ELSE IF BCmp(x, y) > 0 THEN BSub(x, y) ELSE BSub(y, x),
                  e)

F64AddValues(a, b) ==
    IF F64IsZero(a) THEN (IF F64IsZero(b) THEN [b EXCEPT !.s = a.s * b.s] ELSE b)
    ELSE IF F64IsZero(b) THEN a
    ELSE CHOOSE r \in {F64AddAligned(a, b, e, BShl(a.m, a.e - e), BShl(b.m, b.e - e)) :
                         e \in {Min(a.e, b.e)}} : TRUE

F64Add(a, b) == CHOOSE r \in {F64AddValues(x, y) : x \in {a}, y \in {b}} : TRUE

F64Sub(a, b) == F64Add(a, F64Neg(b))

\* a / b for b # 0: 55 or 56 quotient bits and a sticky bit, then rounded
F64DivValues(a, b) ==
    IF F64IsZero(a) THEN [s |-> (a.s + b.s) % 2, m |-> <<>>, e |-> 0]
    ELSE CHOOSE r \in {F64Round((a.s + b.s) % 2,
                                BAdd(BShl(d.quot, 1), IF d.rem = <<>> THEN <<>> ELSE <<1>>),
                                a.e - b.e - 56) :
                         d \in {BDivMod(BShl(a.m, 55), b.m)}} : TRUE

F64Div(a, b) == CHOOSE r \in {F64DivValues(x, y) : x \in {a}, y \in {b}} : TRUE

\* sqrt(a) for a >= 0: the integer root of m * 2^k with at least 55 bits, and a
\* sticky bit, then rounded
F64SqrtRoot(n, r, e) ==
    F64Round(0, BAdd(BShl(r, 1), IF BMul(r, r) = n THEN <<>> ELSE <<1>>), e)

F64SqrtValue(a, k) ==
    CHOOSE v \in {F64SqrtRoot(n, BSqrt(n), ((a.e - k) \div 2) - 1) :
                    n \in {BShl(a.m, k)}} : TRUE

F64Sqrt(a) ==
    CHOOSE v \in {IF F64IsZero(x) THEN x ELSE F64SqrtValue(x, 58 + (x.e % 2)) :
                    x \in {a}} : TRUE

\* a > b
F64Gt(a, b) == \E d \in {F64Sub(a, b)} : ~F64IsZero(d) /\ d.s = 0

\* a <= b
F64Le(a, b) == ~F64Gt(a, b)

\* the integer part of a >= 0 (`a as u32`, for values below 2^31)
F64Trunc(a) ==
    CHOOSE n \in {IF F64IsZero(x) THEN 0
                  ELSE IF x.e >= 0 THEN BToInt(BShl(x.m, x.e))
                  ELSE BToInt(BShr(x.m, 0 - x.e)) : x \in {a}} : TRUE

(***************************************************************************)
(* Texts: sequences of bytes.                                              *)
(***************************************************************************)
\* str::contains
contains(text, pat) ==
    \E i \in 1..(Len(text) - Len(pat) + 1) : SubSeq(text, i, i + Len(pat) - 1) = pat

\* str::to_lowercase (ASCII)
to_lowercase(text) ==
    [i \in 1..Len(text) |-> IF text[i] >= 65 /\ text[i] <= 90 THEN text[i] + 32 ELSE text[i]]

\* char::is_whitespace (ASCII): tab, line feed, vertical tab, form feed, carriage
\* return, space
is_whitespace(c) == c \in {9, 10, 11, 12, 13, 32}

\* str::trim().is_empty()
trim_is_empty(text) == \A i \in 1..Len(text) : is_whitespace(text[i])

\* str::split_whitespace().count(): the number of maximal runs of non-whitespace
split_whitespace_count(text) ==
    Cardinality({i \in 1..Len(text) :
                   /\ ~is_whitespace(text[i])
                   /\ (i = 1 \/ is_whitespace(text[i - 1]))})

\* [String]::join(sep)
RECURSIVE join(_, _)
join(strs, sep) ==
    IF strs = <<>> THEN <<>>
    ELSE IF Len(strs) = 1 THEN strs[1]
    ELSE strs[1] \o sep \o join(Tail(strs), sep)

\* the decimal digits of n >= 0
RECURSIVE Digits(_)
Digits(n) == IF n < 10 THEN <<48 + n>> ELSE Digits(n \div 10) \o <<48 + (n % 10)>>

\* format!("{:?}", n) for an i32
fmt_i32(n) == IF n < 0 THEN <<45>> \o Digits(0 - n) ELSE Digits(n)

\* format!("{:?}", arr) for a Vec<i32>: "[1, 2, 3]"
fmt_debug_vec(arr) ==
    <<91>> \o join([i \in 1..Len(arr) |-> fmt_i32(arr[i])], <<44, 32>>) \o <<93>>

(***************************************************************************)
(* EmbeddingGenerator (src/src/generators/embeddings.rs)                   *)
(***************************************************************************)
\* the value constructors of src/src/models/responses.rs
EmbeddingData_new(embedding, index) ==
    [object |-> "embedding", embedding |-> embedding, index |-> index]

EmbeddingUsage_new(prompt_tokens) ==
    [prompt_tokens |-> prompt_tokens, total_tokens |-> prompt_tokens]

CreateEmbeddingResponse_new(data, model, usage) ==
    [object |-> "list", data |-> data, model |-> model, usage |-> usage]

\* extract_input_strings with a single integer array split into one record per
\* integer
extract_input_strings_per_integer(input) ==
    CASE input.tag = "String" -> <<input.s>>
      [] input.tag = "StringArray" -> input.strings
      [] input.tag = "IntegerArray" ->
            [i \in 1..Len(input.ints) |-> fmt_i32(input.ints[i])]
      [] input.tag = "IntegerArrayArray" ->
            [i \in 1..Len(input.arrays) |-> fmt_debug_vec(input.arrays[i])]

extract_input_strings(input) ==
    CASE input.tag = "String" -> <<input.s>>
      [] input.tag = "StringArray" -> input.strings
      [] input.tag = "IntegerArray" -> <<fmt_debug_vec(input.ints)>>
      [] input.tag = "IntegerArrayArray" ->
            [i \in 1..Len(input.arrays) |-> fmt_debug_vec(input.arrays[i])]

\* determine_dimensions with the default of text-embedding-3-large taken from
\* text-embedding-3-small
determine_dimensions_small_for_large(request) ==
    IF IsSome(request.dimensions) THEN request.dimensions.some
    ELSE CASE request.model = <<116, 101, 120, 116, 45, 101, 109, 98, 101, 100, 100, 105, 110, 103, 45, 97, 100, 97, 45, 48, 48, 50>> -> 1536
           [] request.model = <<116, 101, 120, 116, 45, 101, 109, 98, 101, 100, 100, 105, 110, 103, 45, 51, 45, 115, 109, 97, 108, 108>> -> 1536
           [] request.model = <<116, 101, 120, 116, 45, 101, 109, 98, 101, 100, 100, 105, 110, 103, 45, 51, 45, 108, 97, 114, 103, 101>> -> 1536
           [] request.model = <<116, 101, 120, 116, 45, 115, 105, 109, 105, 108, 97, 114, 105, 116, 121, 45, 97, 100, 97, 45, 48, 48, 49>> -> 1024
           [] request.model = <<116, 101, 120, 116, 45, 115, 105, 109, 105, 108, 97, 114, 105, 116, 121, 45, 98, 97, 98, 98, 97, 103, 101, 45, 48, 48, 49>> -> 2048
           [] request.model = <<116, 101, 120, 116, 45, 115, 105, 109, 105, 108, 97, 114, 105, 116, 121, 45, 99, 117, 114, 105, 101, 45, 48, 48, 49>> -> 4096
           [] request.model = <<116, 101, 120, 116, 45, 115, 105, 109, 105, 108, 97, 114, 105, 116, 121, 45, 100, 97, 118, 105, 110, 99, 105, 45, 48, 48, 49>> -> 12288
           [] OTHER -> 1536

determine_dimensions(request) ==
    IF IsSome(request.dimensions) THEN request.dimensions.some
    ELSE CASE request.model = <<116, 101, 120, 116, 45, 101, 109, 98, 101, 100, 100, 105, 110, 103, 45, 97, 100, 97, 45, 48, 48, 50>> -> 1536
           [] request.model = <<116, 101, 120, 116, 45, 101, 109, 98, 101, 100, 100, 105, 110, 103, 45, 51, 45, 115, 109, 97, 108, 108>> -> 1536
           [] request.model = <<116, 101, 120, 116, 45, 101, 109, 98, 101, 100, 100, 105, 110, 103, 45, 51, 45, 108, 97, 114, 103, 101>> -> 3072
           [] request.model = <<116, 101, 120, 116, 45, 115, 105, 109, 105, 108, 97, 114, 105, 116, 121, 45, 97, 100, 97, 45, 48, 48, 49>> -> 1024
           [] request.model = <<116, 101, 120, 116, 45, 115, 105, 109, 105, 108, 97, 114, 105, 116, 121, 45, 98, 97, 98, 98, 97, 103, 101, 45, 48, 48, 49>> -> 2048
           [] request.model = <<116, 101, 120, 116, 45, 115, 105, 109, 105, 108, 97, 114, 105, 116, 121, 45, 99, 117, 114, 105, 101, 45, 48, 48, 49>> -> 4096
           [] request.model = <<116, 101, 120, 116, 45, 115, 105, 109, 105, 108, 97, 114, 105, 116, 121, 45, 100, 97, 118, 105, 110, 99, 105, 45, 48, 48, 49>> -> 12288
           [] OTHER -> 1536

\* wrapping_mul, were the product kept to 32 bits
wrapping_mul_u32(x, y) == BLow(BMul(x, y), 32)

\* u64::wrapping_mul and u64::wrapping_add
wrapping_mul(x, y) == BLow(BMul(x, y), 64)

wrapping_add(x, y) == BLow(BAdd(x, y), 64)

RECURSIVE hash_bytes(_, _, _)
hash_bytes(input, i, hash) ==
    IF i > Len(input) THEN hash
    ELSE CHOOSE r \in {hash_bytes(input, i + 1, next) :
                         next \in {wrapping_add(wrapping_mul(hash, <<33>>),
                                                BFromInt(input[i]))}} : TRUE

\* hash_string with the seed taken from the clock as well
hash_string_clock(input) == hash_bytes(input, 1, BFromInt(5381 + (now % 2)))

hash_string(input) == hash_bytes(input, 1, BFromInt(5381))

\* rng_step without the reduction modulo 2^31
rng_step_unreduced(rng_state, i) ==
    wrapping_add(wrapping_add(wrapping_mul(rng_state, BFromInt(1103515245)),
                              BFromInt(12345)),
                 BFromInt(i))

\* one step of the generator: the state for component i (0-based) from the
\* state before it
rng_step(rng_state, i) ==
    BLow(wrapping_add(wrapping_add(wrapping_mul(rng_state, BFromInt(1103515245)),
                                   BFromInt(12345)),
                      BFromInt(i)),
         31)

\* the n states for components i .. i + n - 1, in order (n >= 1); the loop of
\* generate_embedding_vector, split in halves to keep the evaluation shallow
RECURSIVE rng_states(_, _, _)
rng_states(rng_state, i, n) ==
    IF n = 1 THEN <<rng_step(rng_state, i)>>
    ELSE CHOOSE r \in {left \o rng_states(left[Len(left)], i + Len(left), n - Len(left)) :
                         left \in {rng_states(rng_state, i, n \div 2)}} : TRUE

F64_0_3 == [s |-> 0, m |-> <<13107,26214,19660,153>>, e |-> -54]

F64_0_7 == [s |-> 0, m |-> <<26214,19660,6553,179>>, e |-> -53]

F64_0_8 == [s |-> 0, m |-> <<6554,13107,26214,204>>, e |-> -53]

\* the component generated from one state, before normalization
smoothed_value(rng_state) ==
    CHOOSE smoothed \in
        {LET normalized_value == F64Mul(F64Sub(raw_value, F64Pow2(-1)), F64Pow2(1))
         IN  F64Mul(normalized_value,
                    F64Add(F64_0_3,
                           F64Mul(F64_0_7, F64Sub(F64Pow2(0), F64Abs(raw_value))))) :
           raw_value \in {F64Div(F64FromNat(rng_state), F64FromNat(BShl(<<1>>, 31)))}} :
        TRUE

\* vector.iter().map(|x| x * x).sum::<f64>() continued from acc over components
\* lo .. hi, left to right
RECURSIVE sum_squares(_, _, _, _)
sum_squares(acc, vector, lo, hi) ==
    IF lo > hi THEN acc
    ELSE IF lo = hi THEN F64Add(acc, F64Mul(vector[lo], vector[lo]))
    ELSE CHOOSE r \in {sum_squares(left, vector, ((lo + hi) \div 2) + 1, hi) :
                         left \in {sum_squares(acc, vector, lo, (lo + hi) \div 2)}} : TRUE

\* normalize_vector without the test magnitude > 0.0: x / 0.0 is NaN for x = 0.0
\* and an infinity otherwise, written here as values of exponent 1024
normalize_vector_unguarded(vector) ==
    CHOOSE normalized \in
        {[i \in 1..Len(vector) |->
             IF F64IsZero(magnitude)
             THEN [s |-> vector[i].s, m |-> IF F64IsZero(vector[i]) THEN <<1>> ELSE <<>>,
                   e |-> 1024]
             ELSE F64Div(vector[i], magnitude)] :
           magnitude \in {F64Sqrt(sum_squares(F64Zero, vector, 1, Len(vector)))}} : TRUE

normalize_vector(vector) ==
    CHOOSE normalized \in
        {IF F64Gt(magnitude, F64Zero)
         THEN [i \in 1..Len(vector) |-> F64Div(vector[i], magnitude)]
         ELSE vector :
           magnitude \in {F64Sqrt(sum_squares(F64Zero, vector, 1, Len(vector)))}} : TRUE

\* the components pushed by the loop of generate_embedding_vector, from the seed
smoothed_values(seed, dimensions) ==
    IF dimensions = 0 THEN <<>>
    ELSE CHOOSE vector \in {[i \in 1..dimensions |-> smoothed_value(states[i])] :
                              states \in {rng_states(seed, 0, dimensions)}} : TRUE

generate_embedding_vector(input_text, dimensions) ==
    CHOOSE normalized \in
        {IF Evaluated(vector) THEN normalize_vector(vector) ELSE vector :
           vector \in {smoothed_values(hash_string(input_text), dimensions)}} : TRUE

embedding_estimate_tokens(text) ==
    LET base_estimate == Max(Len(text) \div 4, 1)
        word_count == split_whitespace_count(text)
    IN  F64Trunc(F64Mul(F64FromNat(BFromInt(base_estimate + word_count)), F64_0_8))

embedding_generate_usage(input_strings) ==
    EmbeddingUsage_new(embedding_estimate_tokens(join(input_strings, <<32>>)))

embedding_generate_response(request) ==
    LET input_strings == extract_input_strings(request.input)
        dimensions == determine_dimensions(request)
        data == [k \in 1..Len(input_strings) |->
                   EmbeddingData_new(
                       generate_embedding_vector(input_strings[k], dimensions), k - 1)]
    IN  CreateEmbeddingResponse_new(data, request.model,
                                    embedding_generate_usage(input_strings))

(***************************************************************************)
(* CompletionGenerator (src/src/generators/completions.rs)                 *)
(***************************************************************************)
\* Option::unwrap_or
unwrap_or(o, default) == IF o = None THEN default ELSE o.some

\* chrono: the day of the month (1..31), UTC, of a Unix timestamp
utc_day(timestamp) ==
    LET z == (timestamp \div 86400) + 719468
        doe == z % 146097
        yoe == (doe - (doe \div 1460) + (doe \div 36524) - (doe \div 146096)) \div 365
        doy == doe - ((365 * yoe) + (yoe \div 4) - (yoe \div 100))
        mp == ((5 * doy) + 2) \div 153
    IN  doy - (((153 * mp) + 2) \div 5) + 1

\* the sum of the chars of input
RECURSIVE simple_hash(_)
simple_hash(input) == IF input = <<>> THEN 0 ELSE Head(input) + simple_hash(Tail(input))

\* max_tokens * 4 is a u32 product: where the build does not check for overflow
\* it is the product modulo 2^32
truncate_to_tokens(text, max_tokens) ==
    LET max_chars == (max_tokens % 1073741824) * 4
        truncated == SubSeq(text, 1, max_chars)
        spaces == {i \in 1..max_chars : truncated[i] = 32}
    IN  IF Len(text) <= max_chars THEN text
        ELSE IF spaces # {}
                THEN SubSeq(truncated, 1, (CHOOSE i \in spaces : \A j \in spaces : j <= i) - 1)
                ELSE truncated

get_greeting_completion(prompt, max_tokens) ==
    LET responses == <<
          \* " Hello! How can I help you today?"
          <<32, 72, 101, 108, 108, 111, 33, 32, 72, 111, 119, 32, 99, 97, 110, 32, 73, 32, 104, 101, 108, 112, 32, 121, 111, 117, 32, 116, 111, 100, 97, 121, 63>>,
          \* " Hi there! Nice to meet you."
          <<32, 72, 105, 32, 116, 104, 101, 114, 101, 33, 32, 78, 105, 99, 101, 32, 116, 111, 32, 109, 101, 101, 116, 32, 121, 111, 117, 46>>,
          \* " Hello! I'm here to assist you."
          <<32, 72, 101, 108, 108, 111, 33, 32, 73, 39, 109, 32, 104, 101, 114, 101, 32, 116, 111, 32, 97, 115, 115, 105, 115, 116, 32, 121, 111, 117, 46>>,
          \* " Hi! What would you like to know?"
          <<32, 72, 105, 33, 32, 87, 104, 97, 116, 32, 119, 111, 117, 108, 100, 32, 121, 111, 117, 32, 108, 105, 107, 101, 32, 116, 111, 32, 107, 110, 111, 119, 63>>,
          \* " Hello! Feel free to ask me anything."
          <<32, 72, 101, 108, 108, 111, 33, 32, 70, 101, 101, 108, 32, 102, 114, 101, 101, 32, 116, 111, 32, 97, 115, 107, 32, 109, 101, 32, 97, 110, 121, 116, 104, 105, 110, 103, 46>>>>
    IN  truncate_to_tokens(responses[(Len(prompt) % Len(responses)) + 1], max_tokens)

\* the response is picked by the clock's timestamp
get_creative_completion(prompt, max_tokens) ==
    LET responses == <<
          \* " Once upon a time, in a land far away, there lived a curious explorer who discovered amazing secrets hidden in ancient ruins."
          <<32, 79, 110, 99, 101, 32, 117, 112, 111, 110, 32, 97, 32, 116, 105, 109, 101, 44, 32, 105, 110, 32, 97, 32, 108, 97, 110, 100, 32, 102, 97, 114, 32, 97, 119, 97, 121, 44, 32, 116, 104, 101, 114, 101, 32, 108, 105, 118, 101, 100, 32, 97, 32, 99, 117, 114, 105, 111, 117, 115, 32, 101, 120, 112, 108, 111, 114, 101, 114, 32, 119, 104, 111, 32, 100, 105, 115, 99, 111, 118, 101, 114, 101, 100, 32, 97, 109, 97, 122, 105, 110, 103, 32, 115, 101, 99, 114, 101, 116, 115, 32, 104, 105, 100, 100, 101, 110, 32, 105, 110, 32, 97, 110, 99, 105, 101, 110, 116, 32, 114, 117, 105, 110, 115, 46>>,
          \* " The story begins on a rainy Tuesday morning when everything seemed ordinary, but little did anyone know that extraordinary events were about to unfold."
          <<32, 84, 104, 101, 32, 115, 116, 111, 114, 121, 32, 98, 101, 103, 105, 110, 115, 32, 111, 110, 32, 97, 32, 114, 97, 105, 110, 121, 32, 84, 117, 101, 115, 100, 97, 121, 32, 109, 111, 114, 110, 105, 110, 103, 32, 119, 104, 101, 110, 32, 101, 118, 101, 114, 121, 116, 104, 105, 110, 103, 32, 115, 101, 101, 109, 101, 100, 32, 111, 114, 100, 105, 110, 97, 114, 121, 44, 32, 98, 117, 116, 32, 108, 105, 116, 116, 108, 101, 32, 100, 105, 100, 32, 97, 110, 121, 111, 110, 101, 32, 107, 110, 111, 119, 32, 116, 104, 97, 116, 32, 101, 120, 116, 114, 97, 111, 114, 100, 105, 110, 97, 114, 121, 32, 101, 118, 101, 110, 116, 115, 32, 119, 101, 114, 101, 32, 97, 98, 111, 117, 116, 32, 116, 111, 32, 117, 110, 102, 111, 108, 100, 46>>,
          \* " In the bustling city, among the towering skyscrapers and busy streets, a small coffee shop held the key to an incredible adventure."
          <<32, 73, 110, 32, 116, 104, 101, 32, 98, 117, 115, 116, 108, 105, 110, 103, 32, 99, 105, 116, 121, 44, 32, 97, 109, 111, 110, 103, 32, 116, 104, 101, 32, 116, 111, 119, 101, 114, 105, 110, 103, 32, 115, 107, 121, 115, 99, 114, 97, 112, 101, 114, 115, 32, 97, 110, 100, 32, 98, 117, 115, 121, 32, 115, 116, 114, 101, 101, 116, 115, 44, 32, 97, 32, 115, 109, 97, 108, 108, 32, 99, 111, 102, 102, 101, 101, 32, 115, 104, 111, 112, 32, 104, 101, 108, 100, 32, 116, 104, 101, 32, 107, 101, 121, 32, 116, 111, 32, 97, 110, 32, 105, 110, 99, 114, 101, 100, 105, 98, 108, 101, 32, 97, 100, 118, 101, 110, 116, 117, 114, 101, 46>>,
          \* " The old library contained more than just books - it held mysteries that had been waiting centuries to be uncovered by the right person."
          <<32, 84, 104, 101, 32, 111, 108, 100, 32, 108, 105, 98, 114, 97, 114, 121, 32, 99, 111, 110, 116, 97, 105, 110, 101, 100, 32, 109, 111, 114, 101, 32, 116, 104, 97, 110, 32, 106, 117, 115, 116, 32, 98, 111, 111, 107, 115, 32, 45, 32, 105, 116, 32, 104, 101, 108, 100, 32, 109, 121, 115, 116, 101, 114, 105, 101, 115, 32, 116, 104, 97, 116, 32, 104, 97, 100, 32, 98, 101, 101, 110, 32, 119, 97, 105, 116, 105, 110, 103, 32, 99, 101, 110, 116, 117, 114, 105, 101, 115, 32, 116, 111, 32, 98, 101, 32, 117, 110, 99, 111, 118, 101, 114, 101, 100, 32, 98, 121, 32, 116, 104, 101, 32, 114, 105, 103, 104, 116, 32, 112, 101, 114, 115, 111, 110, 46>>>>
    IN  truncate_to_tokens(responses[(now % Len(responses)) + 1], max_tokens)

\* the response is picked by the clock's day of the month
get_explanatory_completion(prompt, max_tokens) ==
    LET responses == <<
          \* " This is a complex topic that involves multiple interconnected concepts. Let me break it down into simpler parts for better understanding."
          <<32, 84, 104, 105, 115, 32, 105, 115, 32, 97, 32, 99, 111, 109, 112, 108, 101, 120, 32, 116, 111, 112, 105, 99, 32, 116, 104, 97, 116, 32, 105, 110, 118, 111, 108, 118, 101, 115, 32, 109, 117, 108, 116, 105, 112, 108, 101, 32, 105, 110, 116, 101, 114, 99, 111, 110, 110, 101, 99, 116, 101, 100, 32, 99, 111, 110, 99, 101, 112, 116, 115, 46, 32, 76, 101, 116, 32, 109, 101, 32, 98, 114, 101, 97, 107, 32, 105, 116, 32, 100, 111, 119, 110, 32, 105, 110, 116, 111, 32, 115, 105, 109, 112, 108, 101, 114, 32, 112, 97, 114, 116, 115, 32, 102, 111, 114, 32, 98, 101, 116, 116, 101, 114, 32, 117, 110, 100, 101, 114, 115, 116, 97, 110, 100, 105, 110, 103, 46>>,
          \* " The fundamental principle behind this is based on well-established scientific theories that have been validated through extensive research."
          <<32, 84, 104, 101, 32, 102, 117, 110, 100, 97, 109, 101, 110, 116, 97, 108, 32, 112, 114, 105, 110, 99, 105, 112, 108, 101, 32, 98, 101, 104, 105, 110, 100, 32, 116, 104, 105, 115, 32, 105, 115, 32, 98, 97, 115, 101, 100, 32, 111, 110, 32, 119, 101, 108, 108, 45, 101, 115, 116, 97, 98, 108, 105, 115, 104, 101, 100, 32, 115, 99, 105, 101, 110, 116, 105, 102, 105, 99, 32, 116, 104, 101, 111, 114, 105, 101, 115, 32, 116, 104, 97, 116, 32, 104, 97, 118, 101, 32, 98, 101, 101, 110, 32, 118, 97, 108, 105, 100, 97, 116, 101, 100, 32, 116, 104, 114, 111, 117, 103, 104, 32, 101, 120, 116, 101, 110, 115, 105, 118, 101, 32, 114, 101, 115, 101, 97, 114, 99, 104, 46>>,
          \* " To understand this properly, we need to consider the historical context and how various factors have influenced its development over time."
          <<32, 84, 111, 32, 117, 110, 100, 101, 114, 115, 116, 97, 110, 100, 32, 116, 104, 105, 115, 32, 112, 114, 111, 112, 101, 114, 108, 121, 44, 32, 119, 101, 32, 110, 101, 101, 100, 32, 116, 111, 32, 99, 111, 110, 115, 105, 100, 101, 114, 32, 116, 104, 101, 32, 104, 105, 115, 116, 111, 114, 105, 99, 97, 108, 32, 99, 111, 110, 116, 101, 120, 116, 32, 97, 110, 100, 32, 104, 111, 119, 32, 118, 97, 114, 105, 111, 117, 115, 32, 102, 97, 99, 116, 111, 114, 115, 32, 104, 97, 118, 101, 32, 105, 110, 102, 108, 117, 101, 110, 99, 101, 100, 32, 105, 116, 115, 32, 100, 101, 118, 101, 108, 111, 112, 109, 101, 110, 116, 32, 111, 118, 101, 114, 32, 116, 105, 109, 101, 46>>,
          \* " This concept can be explained through a practical example that demonstrates its real-world applications and benefits."
          <<32, 84, 104, 105, 115, 32, 99, 111, 110, 99, 101, 112, 116, 32, 99, 97, 110, 32, 98, 101, 32, 101, 120, 112, 108, 97, 105, 110, 101, 100, 32, 116, 104, 114, 111, 117, 103, 104, 32, 97, 32, 112, 114, 97, 99, 116, 105, 99, 97, 108, 32, 101, 120, 97, 109, 112, 108, 101, 32, 116, 104, 97, 116, 32, 100, 101, 109, 111, 110, 115, 116, 114, 97, 116, 101, 115, 32, 105, 116, 115, 32, 114, 101, 97, 108, 45, 119, 111, 114, 108, 100, 32, 97, 112, 112, 108, 105, 99, 97, 116, 105, 111, 110, 115, 32, 97, 110, 100, 32, 98, 101, 110, 101, 102, 105, 116, 115, 46>>>>
    IN  truncate_to_tokens(responses[(utc_day(now) % Len(responses)) + 1], max_tokens)

\* the response is picked by the clock's hour of the day
get_code_completion(prompt, max_tokens) ==
    LET responses == <<
          \* "\n```rust\nfn example() {\n    println!("Hello, world!");\n}\n```"
          <<10, 96, 96, 96, 114, 117, 115, 116, 10, 102, 110, 32, 101, 120, 97, 109, 112, 108, 101, 40, 41, 32, 123, 10, 32, 32, 32, 32, 112, 114, 105, 110, 116, 108, 110, 33, 40, 34, 72, 101, 108, 108, 111, 44, 32, 119, 111, 114, 108, 100, 33, 34, 41, 59, 10, 125, 10, 96, 96, 96>>,
          \* "\n```python\ndef example():\n    print("Hello, world!")\n    return True\n```"
          <<10, 96, 96, 96, 112, 121, 116, 104, 111, 110, 10, 100, 101, 102, 32, 101, 120, 97, 109, 112, 108, 101, 40, 41, 58, 10, 32, 32, 32, 32, 112, 114, 105, 110, 116, 40, 34, 72, 101, 108, 108, 111, 44, 32, 119, 111, 114, 108, 100, 33, 34, 41, 10, 32, 32, 32, 32, 114, 101, 116, 117, 114, 110, 32, 84, 114, 117, 101, 10, 96, 96, 96>>,
          \* "\n```javascript\nfunction example() {\n    console.log("Hello, world!");\n    return true;\n}\n```"
          <<10, 96, 96, 96, 106, 97, 118, 97, 115, 99, 114, 105, 112, 116, 10, 102, 117, 110, 99, 116, 105, 111, 110, 32, 101, 120, 97, 109, 112, 108, 101, 40, 41, 32, 123, 10, 32, 32, 32, 32, 99, 111, 110, 115, 111, 108, 101, 46, 108, 111, 103, 40, 34, 72, 101, 108, 108, 111, 44, 32, 119, 111, 114, 108, 100, 33, 34, 41, 59, 10, 32, 32, 32, 32, 114, 101, 116, 117, 114, 110, 32, 116, 114, 117, 101, 59, 10, 125, 10, 96, 96, 96>>,
          \* "\n```java\npublic void example() {\n    System.out.println("Hello, world!");\n}\n```"
          <<10, 96, 96, 96, 106, 97, 118, 97, 10, 112, 117, 98, 108, 105, 99, 32, 118, 111, 105, 100, 32, 101, 120, 97, 109, 112, 108, 101, 40, 41, 32, 123, 10, 32, 32, 32, 32, 83, 121, 115, 116, 101, 109, 46, 111, 117, 116, 46, 112, 114, 105, 110, 116, 108, 110, 40, 34, 72, 101, 108, 108, 111, 44, 32, 119, 111, 114, 108, 100, 33, 34, 41, 59, 10, 125, 10, 96, 96, 96>>>>
    IN  truncate_to_tokens(responses[(((now \div 3600) % 24) % Len(responses)) + 1],
                           max_tokens)

get_general_completion(prompt, max_tokens) ==
    LET responses == <<
          \* " This is an interesting topic that deserves careful consideration and thoughtful analysis."
          <<32, 84, 104, 105, 115, 32, 105, 115, 32, 97, 110, 32, 105, 110, 116, 101, 114, 101, 115, 116, 105, 110, 103, 32, 116, 111, 112, 105, 99, 32, 116, 104, 97, 116, 32, 100, 101, 115, 101, 114, 118, 101, 115, 32, 99, 97, 114, 101, 102, 117, 108, 32, 99, 111, 110, 115, 105, 100, 101, 114, 97, 116, 105, 111, 110, 32, 97, 110, 100, 32, 116, 104, 111, 117, 103, 104, 116, 102, 117, 108, 32, 97, 110, 97, 108, 121, 115, 105, 115, 46>>,
          \* " There are several important factors to consider when approaching this subject matter."
          <<32, 84, 104, 101, 114, 101, 32, 97, 114, 101, 32, 115, 101, 118, 101, 114, 97, 108, 32, 105, 109, 112, 111, 114, 116, 97, 110, 116, 32, 102, 97, 99, 116, 111, 114, 115, 32, 116, 111, 32, 99, 111, 110, 115, 105, 100, 101, 114, 32, 119, 104, 101, 110, 32, 97, 112, 112, 114, 111, 97, 99, 104, 105, 110, 103, 32, 116, 104, 105, 115, 32, 115, 117, 98, 106, 101, 99, 116, 32, 109, 97, 116, 116, 101, 114, 46>>,
          \* " The key to understanding this lies in examining the underlying principles and their practical applications."
          <<32, 84, 104, 101, 32, 107, 101, 121, 32, 116, 111, 32, 117, 110, 100, 101, 114, 115, 116, 97, 110, 100, 105, 110, 103, 32, 116, 104, 105, 115, 32, 108, 105, 101, 115, 32, 105, 110, 32, 101, 120, 97, 109, 105, 110, 105, 110, 103, 32, 116, 104, 101, 32, 117, 110, 100, 101, 114, 108, 121, 105, 110, 103, 32, 112, 114, 105, 110, 99, 105, 112, 108, 101, 115, 32, 97, 110, 100, 32, 116, 104, 101, 105, 114, 32, 112, 114, 97, 99, 116, 105, 99, 97, 108, 32, 97, 112, 112, 108, 105, 99, 97, 116, 105, 111, 110, 115, 46>>,
          \* " This represents a fascinating area of study with many opportunities for further exploration."
          <<32, 84, 104, 105, 115, 32, 114, 101, 112, 114, 101, 115, 101, 110, 116, 115, 32, 97, 32, 102, 97, 115, 99, 105, 110, 97, 116, 105, 110, 103, 32, 97, 114, 101, 97, 32, 111, 102, 32, 115, 116, 117, 100, 121, 32, 119, 105, 116, 104, 32, 109, 97, 110, 121, 32, 111, 112, 112, 111, 114, 116, 117, 110, 105, 116, 105, 101, 115, 32, 102, 111, 114, 32, 102, 117, 114, 116, 104, 101, 114, 32, 101, 120, 112, 108, 111, 114, 97, 116, 105, 111, 110, 46>>,
          \* " The complexity of this subject requires a multifaceted approach to fully appreciate its nuances."
          <<32, 84, 104, 101, 32, 99, 111, 109, 112, 108, 101, 120, 105, 116, 121, 32, 111, 102, 32, 116, 104, 105, 115, 32, 115, 117, 98, 106, 101, 99, 116, 32, 114, 101, 113, 117, 105, 114, 101, 115, 32, 97, 32, 109, 117, 108, 116, 105, 102, 97, 99, 101, 116, 101, 100, 32, 97, 112, 112, 114, 111, 97, 99, 104, 32, 116, 111, 32, 102, 117, 108, 108, 121, 32, 97, 112, 112, 114, 101, 99, 105, 97, 116, 101, 32, 105, 116, 115, 32, 110, 117, 97, 110, 99, 101, 115, 46>>>>
    IN  truncate_to_tokens(responses[(simple_hash(prompt) % Len(responses)) + 1],
                           max_tokens)

\* generate_completion_text, were the echoed prompt cut together with the completion
generate_completion_text_cut_echo(request) ==
    LET prompt == IF request.prompt.tag = "String" THEN request.prompt.s
                  ELSE IF request.prompt.strings = <<>> THEN <<>>
                  ELSE request.prompt.strings[1]
        max_tokens == unwrap_or(request.max_tokens, 16)
        lower == to_lowercase(prompt)
        completion ==
            IF contains(lower, <<104, 101, 108, 108, 111>>)    \* "hello"
                THEN get_greeting_completion(prompt, max_tokens)
            ELSE IF \/ contains(lower, <<119, 114, 105, 116, 101>>)    \* "write"
                    \/ contains(lower, <<99, 114, 101, 97, 116, 101>>)    \* "create"
                THEN get_creative_completion(prompt, max_tokens)
            ELSE IF \/ contains(lower, <<101, 120, 112, 108, 97, 105, 110>>)    \* "explain"
                    \/ contains(lower, <<119, 104, 97, 116>>)    \* "what"
                THEN get_explanatory_completion(prompt, max_tokens)
            ELSE IF \/ contains(lower, <<99, 111, 100, 101>>)    \* "code"
                    \/ contains(lower, <<102, 117, 110, 99, 116, 105, 111, 110>>)    \* "function"
                THEN get_code_completion(prompt, max_tokens)
            ELSE get_general_completion(prompt, max_tokens)
    IN  IF unwrap_or(request.echo, FALSE)
            THEN truncate_to_tokens(prompt \o completion, max_tokens)
            ELSE completion

generate_completion_text(request) ==
    LET prompt == IF request.prompt.tag = "String" THEN request.prompt.s
                  ELSE IF request.prompt.strings = <<>> THEN <<>>
                  ELSE request.prompt.strings[1]
        max_tokens == unwrap_or(request.max_tokens, 16)
        lower == to_lowercase(prompt)
        completion ==
            IF contains(lower, <<104, 101, 108, 108, 111>>)    \* "hello"
                THEN get_greeting_completion(prompt, max_tokens)
            ELSE IF \/ contains(lower, <<119, 114, 105, 116, 101>>)    \* "write"
                    \/ contains(lower, <<99, 114, 101, 97, 116, 101>>)    \* "create"
                THEN get_creative_completion(prompt, max_tokens)
            ELSE IF \/ contains(lower, <<101, 120, 112, 108, 97, 105, 110>>)    \* "explain"
                    \/ contains(lower, <<119, 104, 97, 116>>)    \* "what"
                THEN get_explanatory_completion(prompt, max_tokens)
            ELSE IF \/ contains(lower, <<99, 111, 100, 101>>)    \* "code"
                    \/ contains(lower, <<102, 117, 110, 99, 116, 105, 111, 110>>)    \* "function"
                THEN get_code_completion(prompt, max_tokens)
            ELSE get_general_completion(prompt, max_tokens)
    IN  IF unwrap_or(request.echo, FALSE) THEN prompt \o completion ELSE completion

\* determine_finish_reason, were only the first stop sequence of an array tested
completion_determine_finish_reason_first_stop(request, text) ==
    LET stops == IF request.stop = None THEN <<>>
                 ELSE IF request.stop.some.tag = "String" THEN <<request.stop.some.s>>
                 ELSE IF request.stop.some.strings = <<>> THEN <<>>
                 ELSE <<request.stop.some.strings[1]>>
    IN  IF \E i \in 1..Len(stops) : contains(text, stops[i]) THEN "stop"
        ELSE IF Len(text) \div 4 >= unwrap_or(request.max_tokens, 16) THEN "length"
        ELSE "stop"

completion_determine_finish_reason(request, text) ==
    LET stops == IF request.stop = None THEN <<>>
                 ELSE IF request.stop.some.tag = "String" THEN <<request.stop.some.s>>
                 ELSE request.stop.some.strings
    IN  IF \E i \in 1..Len(stops) : contains(text, stops[i]) THEN "stop"
        ELSE IF Len(text) \div 4 >= unwrap_or(request.max_tokens, 16) THEN "length"
        ELSE "stop"

\* str::split_whitespace(): the maximal runs of non-whitespace, in order
RECURSIVE split_whitespace(_)
split_whitespace(text) ==
    IF text = <<>> THEN <<>>
    ELSE IF is_whitespace(text[1]) THEN split_whitespace(Tail(text))
    ELSE LET ends == {k \in 1..Len(text) : k = Len(text) \/ is_whitespace(text[k + 1])}
             n == CHOOSE k \in ends : \A j \in ends : k <= j
         IN  <<SubSeq(text, 1, n)>> \o split_whitespace(SubSeq(text, n + 1, Len(text)))

\* a HashMap is the set of its entries
generate_logprobs(text, logprobs_count) ==
    LET all_words == split_whitespace(text)
        words == SubSeq(all_words, 1, Min(logprobs_count, Len(all_words)))
        \* -0.1 - (word.len() as f64 * 0.05)
        logprob(word) ==
            F64Sub([s |-> 1, m |-> <<6554,13107,26214,204>>, e |-> -56],
                   F64Mul(F64FromNat(BFromInt(Len(word))),
                          [s |-> 0, m |-> <<6554,13107,26214,204>>, e |-> -57]))
        top_map(word) ==
            {[token |-> word, logprob |-> logprob(word)]}
            \cup (IF Len(word) > 3
                     THEN {[token |-> word \o <<115>>,
                            logprob |-> F64Sub(logprob(word), F64Pow2(-1))],
                           [token |-> <<117, 110>> \o word,
                            logprob |-> F64Sub(logprob(word), F64Pow2(0))]}
                     ELSE {})
        RECURSIVE offset(_)
        offset(k) == IF k = 1 THEN 0 ELSE offset(k - 1) + Len(words[k - 1]) + 1
    IN  [tokens |-> words,
         token_logprobs |-> [k \in 1..Len(words) |-> Some(logprob(words[k]))],
         top_logprobs |-> Some([k \in 1..Len(words) |-> Some(top_map(words[k]))]),
         text_offset |-> [k \in 1..Len(words) |-> offset(k)]]

\* estimate_tokens without the floor of one token
completion_estimate_tokens_unfloored(text) == (Len(text) \div 4) + (Len(text) % 3)

completion_estimate_tokens(text) == Max(Len(text) \div 4, 1) + (Len(text) % 3)

\* CompletionUsage::new, of both the completion and the chat generator
CompletionUsage_new(prompt_tokens, completion_tokens) ==
    [prompt_tokens |-> prompt_tokens,
     completion_tokens |-> completion_tokens,
     total_tokens |-> prompt_tokens + completion_tokens]

\* CompletionChoice::new
CompletionChoice_new(text, index, finish_reason) ==
    [text |-> text, index |-> index, logprobs |-> None, finish_reason |-> finish_reason]

CreateCompletionResponse_new(id, model, created, choices, usage) ==
    [id |-> id, object |-> "text_completion", created |-> created, model |-> model,
     choices |-> choices, usage |-> usage]

completion_generate_usage(request, choices) ==
    LET prompt_text == IF request.prompt.tag = "String" THEN request.prompt.s
                       ELSE join(request.prompt.strings, <<32>>)
        \* the sum of estimate_tokens over the first k choices
        RECURSIVE completion_tokens(_)
        completion_tokens(k) ==
            IF k = 0 THEN 0
            ELSE completion_tokens(k - 1) + completion_estimate_tokens(choices[k].text)
    IN  CompletionUsage_new(completion_estimate_tokens(prompt_text),
                            completion_tokens(Len(choices)))

completion_generate_choice(request, index) ==
    CHOOSE choice \in
        {IF request.logprobs # None /\ request.logprobs.some > 0
            THEN [c EXCEPT !.logprobs = Some(generate_logprobs(c.text, request.logprobs.some))]
            ELSE c :
            c \in {CompletionChoice_new(text, index,
                                        completion_determine_finish_reason(request, text)) :
                      text \in {generate_completion_text(request)}}} : TRUE

\* generate_response numbering the choices from 1
completion_generate_response_one_based(request, uuid) ==
    CHOOSE response \in
        {CreateCompletionResponse_new(<<"cmpl-", uuid>>, request.model, now, choices,
                                      completion_generate_usage(request, choices)) :
            choices \in {[k \in 1..unwrap_or(request.n, 1) |->
                            completion_generate_choice(request, k)]}} : TRUE

\* generate_response; uuid is the outcome of Uuid::new_v4()
completion_generate_response(request, uuid) ==
    CHOOSE response \in
        {CreateCompletionResponse_new(<<"cmpl-", uuid>>, request.model, now, choices,
                                      completion_generate_usage(request, choices)) :
            choices \in {[k \in 1..unwrap_or(request.n, 1) |->
                             completion_generate_choice(request, k - 1)]}} : TRUE

\* Result<(), String>
Ok == [ok |-> TRUE]

Err(message) == [err |-> message]

\* lo <= x <= hi: (lo..=hi).contains(&x)
range_contains(lo, hi, x) == F64Le(lo, x) /\ F64Le(x, hi)

\* CreateCompletionRequest::validate: Ok, or Err of the message
completion_validate(request) ==
    LET prompt == request.prompt
    IN  IF trim_is_empty(request.model) THEN Err("Model cannot be empty")
        ELSE IF prompt.tag = "String" /\ trim_is_empty(prompt.s)
            THEN Err("Prompt cannot be empty")
        ELSE IF prompt.tag = "Array" /\ prompt.strings = <<>>
            THEN Err("Prompt array cannot be empty")
        ELSE IF /\ prompt.tag = "Array"
                /\ \E i \in 1..Len(prompt.strings) : trim_is_empty(prompt.strings[i])
            THEN Err("Prompt array cannot contain empty strings")
        ELSE IF request.max_tokens # None /\ request.max_tokens.some = 0
            THEN Err("max_tokens must be greater than 0")
        ELSE IF request.max_tokens # None /\ request.max_tokens.some > 4096
            THEN Err("max_tokens cannot exceed 4096")
        ELSE IF /\ request.temperature # None
                /\ ~range_contains(F64Zero, F64Pow2(1), request.temperature.some)
            THEN Err("temperature must be between 0.0 and 2.0")
        ELSE IF /\ request.top_p # None
                /\ ~range_contains(F64Zero, F64Pow2(0), request.top_p.some)
            THEN Err("top_p must be between 0.0 and 1.0")
        ELSE IF request.n # None /\ (request.n.some = 0 \/ request.n.some > 20)
            THEN Err("n must be between 1 and 20")
        ELSE IF request.logprobs # None /\ request.logprobs.some > 5
            THEN Err("logprobs cannot exceed 5")
        ELSE IF /\ request.presence_penalty # None
                /\ ~range_contains(F64Neg(F64Pow2(1)), F64Pow2(1),
                                   request.presence_penalty.some)
            THEN Err("presence_penalty must be between -2.0 and 2.0")
        ELSE IF /\ request.frequency_penalty # None
                /\ ~range_contains(F64Neg(F64Pow2(1)), F64Pow2(1),
                                   request.frequency_penalty.some)
            THEN Err("frequency_penalty must be between -2.0 and 2.0")
        ELSE IF request.best_of # None /\ request.best_of.some < unwrap_or(request.n, 1)
            THEN Err("best_of must be greater than or equal to n")
        ELSE IF request.best_of # None /\ request.best_of.some > 20
            THEN Err("best_of cannot exceed 20")
        ELSE Ok

(***************************************************************************)
(* ChatCompletionGenerator (src/src/generators/chat_completions.rs)        *)
(***************************************************************************)
\* ChatCompletionRole's Display
role_to_string(role) ==
    CASE role = "System" -> <<115, 121, 115, 116, 101, 109>>    \* "system"
      [] role = "User" -> <<117, 115, 101, 114>>    \* "user"
      [] role = "Assistant" -> <<97, 115, 115, 105, 115, 116, 97, 110, 116>>    \* "assistant"
      [] role = "Tool" -> <<116, 111, 111, 108>>    \* "tool"

\* ChatCompletionMessageToolCall::new
ChatCompletionMessageToolCall_new(id, name, arguments) ==
    [id |-> id, tool_type |-> "function",
     function |-> [name |-> name, arguments |-> arguments]]

\* ChatCompletionResponseMessage::assistant_message
assistant_message(content) ==
    [role |-> "assistant", content |-> Some(content), tool_calls |-> None]

\* ChatCompletionResponseMessage::assistant_message_with_tools
assistant_message_with_tools(tool_calls) ==
    [role |-> "assistant", content |-> None, tool_calls |-> Some(tool_calls)]

\* ChatCompletionChoice::new
ChatCompletionChoice_new(index, message, finish_reason) ==
    [index |-> index, message |-> message, finish_reason |-> finish_reason]

CreateChatCompletionResponse_new(id, model, created, choices, usage) ==
    [id |-> id, object |-> "chat.completion", created |-> created, model |-> model,
     choices |-> choices, usage |-> usage]

\* messages.iter().rev().find(role is User).and_then(content): the content of
\* the last message of role User, if there is such a message and it has content
\* last_user_message, were the first user message taken
last_user_message_first(messages) ==
    LET users == {i \in 1..Len(messages) : messages[i].role = "User"}
    IN  IF users = {} THEN None
        ELSE messages[CHOOSE i \in users : \A j \in users : i <= j].content

last_user_message(messages) ==
    LET users == {i \in 1..Len(messages) : messages[i].role = "User"}
    IN  IF users = {} THEN None
        ELSE messages[CHOOSE i \in users : \A j \in users : j <= i].content

\* get_greeting_response, were the response picked by the clock
get_greeting_response_clock ==
    LET responses == <<
            \* "Hello! How can I assist you today?"
            <<72, 101, 108, 108, 111, 33, 32, 72, 111, 119, 32, 99, 97, 110, 32, 73, 32, 97, 115, 115, 105, 115, 116, 32, 121, 111, 117, 32, 116, 111, 100, 97, 121, 63>>,
            \* "Hi there! What can I help you with?"
            <<72, 105, 32, 116, 104, 101, 114, 101, 33, 32, 87, 104, 97, 116, 32, 99, 97, 110, 32, 73, 32, 104, 101, 108, 112, 32, 121, 111, 117, 32, 119, 105, 116, 104, 63>>,
            \* "Hey! I'm here to help. What do you need?"
            <<72, 101, 121, 33, 32, 73, 39, 109, 32, 104, 101, 114, 101, 32, 116, 111, 32, 104, 101, 108, 112, 46, 32, 87, 104, 97, 116, 32, 100, 111, 32, 121, 111, 117, 32, 110, 101, 101, 100, 63>>,
            \* "Hello! I'm ready to assist you with any questions or tasks you have."
            <<72, 101, 108, 108, 111, 33, 32, 73, 39, 109, 32, 114, 101, 97, 100, 121, 32, 116, 111, 32, 97, 115, 115, 105, 115, 116, 32, 121, 111, 117, 32, 119, 105, 116, 104, 32, 97, 110, 121, 32, 113, 117, 101, 115, 116, 105, 111, 110, 115, 32, 111, 114, 32, 116, 97, 115, 107, 115, 32, 121, 111, 117, 32, 104, 97, 118, 101, 46>>>>
    IN  responses[(now % Len(responses)) + 1]

get_greeting_response ==
    LET responses == <<
            \* "Hello! How can I assist you today?"
            <<72, 101, 108, 108, 111, 33, 32, 72, 111, 119, 32, 99, 97, 110, 32, 73, 32, 97, 115, 115, 105, 115, 116, 32, 121, 111, 117, 32, 116, 111, 100, 97, 121, 63>>,
            \* "Hi there! What can I help you with?"
            <<72, 105, 32, 116, 104, 101, 114, 101, 33, 32, 87, 104, 97, 116, 32, 99, 97, 110, 32, 73, 32, 104, 101, 108, 112, 32, 121, 111, 117, 32, 119, 105, 116, 104, 63>>,
            \* "Hey! I'm here to help. What do you need?"
            <<72, 101, 121, 33, 32, 73, 39, 109, 32, 104, 101, 114, 101, 32, 116, 111, 32, 104, 101, 108, 112, 46, 32, 87, 104, 97, 116, 32, 100, 111, 32, 121, 111, 117, 32, 110, 101, 101, 100, 63>>,
            \* "Hello! I'm ready to assist you with any questions or tasks you have."
            <<72, 101, 108, 108, 111, 33, 32, 73, 39, 109, 32, 114, 101, 97, 100, 121, 32, 116, 111, 32, 97, 115, 115, 105, 115, 116, 32, 121, 111, 117, 32, 119, 105, 116, 104, 32, 97, 110, 121, 32, 113, 117, 101, 115, 116, 105, 111, 110, 115, 32, 111, 114, 32, 116, 97, 115, 107, 115, 32, 121, 111, 117, 32, 104, 97, 118, 101, 46>>>>
    IN  responses[(simple_hash(<<103, 114, 101, 101, 116, 105, 110, 103>>) % Len(responses)) + 1]    \* "greeting"

get_question_response(content) ==
    IF contains(content, <<119, 104, 97, 116>>)    \* "what"
        THEN
            \* "That's an interesting question. Let me provide you with a comprehensive answer based on my knowledge."
            <<84, 104, 97, 116, 39, 115, 32, 97, 110, 32, 105, 110, 116, 101, 114, 101, 115, 116, 105, 110, 103, 32, 113, 117, 101, 115, 116, 105, 111, 110, 46, 32, 76, 101, 116, 32, 109, 101, 32, 112, 114, 111, 118, 105, 100, 101, 32, 121, 111, 117, 32, 119, 105, 116, 104, 32, 97, 32, 99, 111, 109, 112, 114, 101, 104, 101, 110, 115, 105, 118, 101, 32, 97, 110, 115, 119, 101, 114, 32, 98, 97, 115, 101, 100, 32, 111, 110, 32, 109, 121, 32, 107, 110, 111, 119, 108, 101, 100, 103, 101, 46>>
    ELSE IF contains(content, <<104, 111, 119>>)    \* "how"
        THEN
            \* "Here's how you can approach this: I'll break it down into clear, actionable steps."
            <<72, 101, 114, 101, 39, 115, 32, 104, 111, 119, 32, 121, 111, 117, 32, 99, 97, 110, 32, 97, 112, 112, 114, 111, 97, 99, 104, 32, 116, 104, 105, 115, 58, 32, 73, 39, 108, 108, 32, 98, 114, 101, 97, 107, 32, 105, 116, 32, 100, 111, 119, 110, 32, 105, 110, 116, 111, 32, 99, 108, 101, 97, 114, 44, 32, 97, 99, 116, 105, 111, 110, 97, 98, 108, 101, 32, 115, 116, 101, 112, 115, 46>>
    ELSE IF contains(content, <<119, 104, 121>>)    \* "why"
        THEN
            \* "There are several reasons for this. Let me explain the key factors involved."
            <<84, 104, 101, 114, 101, 32, 97, 114, 101, 32, 115, 101, 118, 101, 114, 97, 108, 32, 114, 101, 97, 115, 111, 110, 115, 32, 102, 111, 114, 32, 116, 104, 105, 115, 46, 32, 76, 101, 116, 32, 109, 101, 32, 101, 120, 112, 108, 97, 105, 110, 32, 116, 104, 101, 32, 107, 101, 121, 32, 102, 97, 99, 116, 111, 114, 115, 32, 105, 110, 118, 111, 108, 118, 101, 100, 46>>
    ELSE
            \* "I'd be happy to help answer your question. Let me provide you with detailed information."
            <<73, 39, 100, 32, 98, 101, 32, 104, 97, 112, 112, 121, 32, 116, 111, 32, 104, 101, 108, 112, 32, 97, 110, 115, 119, 101, 114, 32, 121, 111, 117, 114, 32, 113, 117, 101, 115, 116, 105, 111, 110, 46, 32, 76, 101, 116, 32, 109, 101, 32, 112, 114, 111, 118, 105, 100, 101, 32, 121, 111, 117, 32, 119, 105, 116, 104, 32, 100, 101, 116, 97, 105, 108, 101, 100, 32, 105, 110, 102, 111, 114, 109, 97, 116, 105, 111, 110, 46>>

generate_contextual_response(user_content, model) ==
    LET content_lower == to_lowercase(user_content)
        has(pat) == contains(content_lower, pat)
        get_code_response ==
            \* "I can help you with programming! Here's a solution:\n\n```python\ndef example_function():\n    return "Hello, World!"\n```\n\nThis code demonstrates a basic function that returns a greeting."
            <<73, 32, 99, 97, 110, 32, 104, 101, 108, 112, 32, 121, 111, 117, 32, 119, 105, 116, 104, 32, 112, 114, 111, 103, 114, 97, 109, 109, 105, 110, 103, 33, 32, 72, 101, 114, 101, 39, 115, 32, 97, 32, 115, 111, 108, 117, 116, 105, 111, 110, 58, 10, 10, 96, 96, 96, 112, 121, 116, 104, 111, 110, 10, 100, 101, 102, 32, 101, 120, 97, 109, 112, 108, 101, 95, 102, 117, 110, 99, 116, 105, 111, 110, 40, 41, 58, 10, 32, 32, 32, 32, 114, 101, 116, 117, 114, 110, 32, 34, 72, 101, 108, 108, 111, 44, 32, 87, 111, 114, 108, 100, 33, 34, 10, 96, 96, 96, 10, 10, 84, 104, 105, 115, 32, 99, 111, 100, 101, 32, 100, 101, 109, 111, 110, 115, 116, 114, 97, 116, 101, 115, 32, 97, 32, 98, 97, 115, 105, 99, 32, 102, 117, 110, 99, 116, 105, 111, 110, 32, 116, 104, 97, 116, 32, 114, 101, 116, 117, 114, 110, 115, 32, 97, 32, 103, 114, 101, 101, 116, 105, 110, 103, 46>>
        get_math_response ==
            \* "I can help with mathematical calculations. For example, if you're looking to solve an equation or perform calculations, I can guide you through the process step by step."
            <<73, 32, 99, 97, 110, 32, 104, 101, 108, 112, 32, 119, 105, 116, 104, 32, 109, 97, 116, 104, 101, 109, 97, 116, 105, 99, 97, 108, 32, 99, 97, 108, 99, 117, 108, 97, 116, 105, 111, 110, 115, 46, 32, 70, 111, 114, 32, 101, 120, 97, 109, 112, 108, 101, 44, 32, 105, 102, 32, 121, 111, 117, 39, 114, 101, 32, 108, 111, 111, 107, 105, 110, 103, 32, 116, 111, 32, 115, 111, 108, 118, 101, 32, 97, 110, 32, 101, 113, 117, 97, 116, 105, 111, 110, 32, 111, 114, 32, 112, 101, 114, 102, 111, 114, 109, 32, 99, 97, 108, 99, 117, 108, 97, 116, 105, 111, 110, 115, 44, 32, 73, 32, 99, 97, 110, 32, 103, 117, 105, 100, 101, 32, 121, 111, 117, 32, 116, 104, 114, 111, 117, 103, 104, 32, 116, 104, 101, 32, 112, 114, 111, 99, 101, 115, 115, 32, 115, 116, 101, 112, 32, 98, 121, 32, 115, 116, 101, 112, 46>>
        get_creative_response ==
            \* "I'd be delighted to help with creative writing! Here's a short example:\n\nOnce upon a time, in a world where artificial intelligence and human creativity merged seamlessly, there lived a helpful assistant who loved to tell stories..."
            <<73, 39, 100, 32, 98, 101, 32, 100, 101, 108, 105, 103, 104, 116, 101, 100, 32, 116, 111, 32, 104, 101, 108, 112, 32, 119, 105, 116, 104, 32, 99, 114, 101, 97, 116, 105, 118, 101, 32, 119, 114, 105, 116, 105, 110, 103, 33, 32, 72, 101, 114, 101, 39, 115, 32, 97, 32, 115, 104, 111, 114, 116, 32, 101, 120, 97, 109, 112, 108, 101, 58, 10, 10, 79, 110, 99, 101, 32, 117, 112, 111, 110, 32, 97, 32, 116, 105, 109, 101, 44, 32, 105, 110, 32, 97, 32, 119, 111, 114, 108, 100, 32, 119, 104, 101, 114, 101, 32, 97, 114, 116, 105, 102, 105, 99, 105, 97, 108, 32, 105, 110, 116, 101, 108, 108, 105, 103, 101, 110, 99, 101, 32, 97, 110, 100, 32, 104, 117, 109, 97, 110, 32, 99, 114, 101, 97, 116, 105, 118, 105, 116, 121, 32, 109, 101, 114, 103, 101, 100, 32, 115, 101, 97, 109, 108, 101, 115, 115, 108, 121, 44, 32, 116, 104, 101, 114, 101, 32, 108, 105, 118, 101, 100, 32, 97, 32, 104, 101, 108, 112, 102, 117, 108, 32, 97, 115, 115, 105, 115, 116, 97, 110, 116, 32, 119, 104, 111, 32, 108, 111, 118, 101, 100, 32, 116, 111, 32, 116, 101, 108, 108, 32, 115, 116, 111, 114, 105, 101, 115, 46, 46, 46>>
        get_advanced_response ==
            \* "As an advanced AI model, I can provide detailed, nuanced responses to complex questions. I'll analyze your request from multiple angles and provide comprehensive insights."
            <<65, 115, 32, 97, 110, 32, 97, 100, 118, 97, 110, 99, 101, 100, 32, 65, 73, 32, 109, 111, 100, 101, 108, 44, 32, 73, 32, 99, 97, 110, 32, 112, 114, 111, 118, 105, 100, 101, 32, 100, 101, 116, 97, 105, 108, 101, 100, 44, 32, 110, 117, 97, 110, 99, 101, 100, 32, 114, 101, 115, 112, 111, 110, 115, 101, 115, 32, 116, 111, 32, 99, 111, 109, 112, 108, 101, 120, 32, 113, 117, 101, 115, 116, 105, 111, 110, 115, 46, 32, 73, 39, 108, 108, 32, 97, 110, 97, 108, 121, 122, 101, 32, 121, 111, 117, 114, 32, 114, 101, 113, 117, 101, 115, 116, 32, 102, 114, 111, 109, 32, 109, 117, 108, 116, 105, 112, 108, 101, 32, 97, 110, 103, 108, 101, 115, 32, 97, 110, 100, 32, 112, 114, 111, 118, 105, 100, 101, 32, 99, 111, 109, 112, 114, 101, 104, 101, 110, 115, 105, 118, 101, 32, 105, 110, 115, 105, 103, 104, 116, 115, 46>>
        get_general_response ==
            \* "I'm here to help! Please feel free to ask me anything, and I'll do my best to provide you with accurate and helpful information."
            <<73, 39, 109, 32, 104, 101, 114, 101, 32, 116, 111, 32, 104, 101, 108, 112, 33, 32, 80, 108, 101, 97, 115, 101, 32, 102, 101, 101, 108, 32, 102, 114, 101, 101, 32, 116, 111, 32, 97, 115, 107, 32, 109, 101, 32, 97, 110, 121, 116, 104, 105, 110, 103, 44, 32, 97, 110, 100, 32, 73, 39, 108, 108, 32, 100, 111, 32, 109, 121, 32, 98, 101, 115, 116, 32, 116, 111, 32, 112, 114, 111, 118, 105, 100, 101, 32, 121, 111, 117, 32, 119, 105, 116, 104, 32, 97, 99, 99, 117, 114, 97, 116, 101, 32, 97, 110, 100, 32, 104, 101, 108, 112, 102, 117, 108, 32, 105, 110, 102, 111, 114, 109, 97, 116, 105, 111, 110, 46>>
    IN  \* "hello", "hi", "hey"
        IF has(<<104, 101, 108, 108, 111>>) \/ has(<<104, 105>>) \/ has(<<104, 101, 121>>)
            THEN get_greeting_response
        \* "?", "what", "how", "why"
        ELSE IF \/ has(<<63>>) \/ has(<<119, 104, 97, 116>>)
                \/ has(<<104, 111, 119>>) \/ has(<<119, 104, 121>>)
            THEN get_question_response(content_lower)
        \* "code", "programming", "function"
        ELSE IF \/ has(<<99, 111, 100, 101>>) \/ has(<<112, 114, 111, 103, 114, 97, 109, 109, 105, 110, 103>>)
                \/ has(<<102, 117, 110, 99, 116, 105, 111, 110>>)
            THEN get_code_response
        \* "calculate", "math", "number"
        ELSE IF \/ has(<<99, 97, 108, 99, 117, 108, 97, 116, 101>>) \/ has(<<109, 97, 116, 104>>)
                \/ has(<<110, 117, 109, 98, 101, 114>>)
            THEN get_math_response
        \* "story", "creative", "write"
        ELSE IF \/ has(<<115, 116, 111, 114, 121>>) \/ has(<<99, 114, 101, 97, 116, 105, 118, 101>>)
                \/ has(<<119, 114, 105, 116, 101>>)
            THEN get_creative_response
        ELSE IF contains(model, <<103, 112, 116, 45, 52>>)    \* "gpt-4"
            THEN get_advanced_response
        ELSE get_general_response

generate_assistant_content(messages, model) ==
    LET content == last_user_message(messages)
        get_default_response ==
            \* "Hello! I'm an AI assistant. How can I help you today?"
            <<72, 101, 108, 108, 111, 33, 32, 73, 39, 109, 32, 97, 110, 32, 65, 73, 32, 97, 115, 115, 105, 115, 116, 97, 110, 116, 46, 32, 72, 111, 119, 32, 99, 97, 110, 32, 73, 32, 104, 101, 108, 112, 32, 121, 111, 117, 32, 116, 111, 100, 97, 121, 63>>
    IN  IF content # None THEN generate_contextual_response(content.some, model)
        ELSE get_default_response

generate_content_message(request) ==
    assistant_message(generate_assistant_content(request.messages, request.model))

\* generate_function_arguments, were "search" tested before "weather"
generate_function_arguments_search_first(function_name) ==
    LET name == to_lowercase(function_name)
    IN  IF contains(name, <<115, 101, 97, 114, 99, 104>>)    \* "search"
            THEN
                \* "{"query": "artificial intelligence"}"
                <<123, 34, 113, 117, 101, 114, 121, 34, 58, 32, 34, 97, 114, 116, 105, 102, 105, 99, 105, 97, 108, 32, 105, 110, 116, 101, 108, 108, 105, 103, 101, 110, 99, 101, 34, 125>>
        ELSE IF contains(name, <<119, 101, 97, 116, 104, 101, 114>>)    \* "weather"
            THEN
                \* "{"location": "San Francisco, CA"}"
                <<123, 34, 108, 111, 99, 97, 116, 105, 111, 110, 34, 58, 32, 34, 83, 97, 110, 32, 70, 114, 97, 110, 99, 105, 115, 99, 111, 44, 32, 67, 65, 34, 125>>
        ELSE IF contains(name, <<99, 97, 108, 99, 117, 108, 97, 116, 101>>)    \* "calculate"
            THEN
                \* "{"expression": "2 + 2"}"
                <<123, 34, 101, 120, 112, 114, 101, 115, 115, 105, 111, 110, 34, 58, 32, 34, 50, 32, 43, 32, 50, 34, 125>>
        ELSE IF contains(name, <<116, 105, 109, 101>>)    \* "time"
            THEN
                \* "{"timezone": "UTC"}"
                <<123, 34, 116, 105, 109, 101, 122, 111, 110, 101, 34, 58, 32, 34, 85, 84, 67, 34, 125>>
        ELSE
                \* "{}"
                <<123, 125>>

generate_function_arguments(function_name) ==
    LET name == to_lowercase(function_name)
    IN  IF contains(name, <<119, 101, 97, 116, 104, 101, 114>>)    \* "weather"
            THEN
                \* "{"location": "San Francisco, CA"}"
                <<123, 34, 108, 111, 99, 97, 116, 105, 111, 110, 34, 58, 32, 34, 83, 97, 110, 32, 70, 114, 97, 110, 99, 105, 115, 99, 111, 44, 32, 67, 65, 34, 125>>
        ELSE IF contains(name, <<115, 101, 97, 114, 99, 104>>)    \* "search"
            THEN
                \* "{"query": "artificial intelligence"}"
                <<123, 34, 113, 117, 101, 114, 121, 34, 58, 32, 34, 97, 114, 116, 105, 102, 105, 99, 105, 97, 108, 32, 105, 110, 116, 101, 108, 108, 105, 103, 101, 110, 99, 101, 34, 125>>
        ELSE IF contains(name, <<99, 97, 108, 99, 117, 108, 97, 116, 101>>)    \* "calculate"
            THEN
                \* "{"expression": "2 + 2"}"
                <<123, 34, 101, 120, 112, 114, 101, 115, 115, 105, 111, 110, 34, 58, 32, 34, 50, 32, 43, 32, 50, 34, 125>>
        ELSE IF contains(name, <<116, 105, 109, 101>>)    \* "time"
            THEN
                \* "{"timezone": "UTC"}"
                <<123, 34, 116, 105, 109, 101, 122, 111, 110, 101, 34, 58, 32, 34, 85, 84, 67, 34, 125>>
        ELSE
                \* "{}"
                <<123, 125>>

\* generate_tool_call; uuid is the outcome of Uuid::new_v4()
generate_tool_call(tool, uuid) ==
    ChatCompletionMessageToolCall_new(<<"call_", uuid>>, tool.function.name,
                                      generate_function_arguments(tool.function.name))

\* generate_tool_call_message calling the last tool of the request
generate_tool_call_message_last_tool(request, uuid) ==
    IF request.tools # None /\ request.tools.some # <<>>
        THEN assistant_message_with_tools(
                 <<generate_tool_call(request.tools.some[Len(request.tools.some)], uuid)>>)
    ELSE generate_content_message(request)

generate_tool_call_message(request, uuid) ==
    IF request.tools # None /\ request.tools.some # <<>>
        THEN assistant_message_with_tools(<<generate_tool_call(request.tools.some[1], uuid)>>)
    ELSE generate_content_message(request)

should_call_function(messages) ==
    LET content == last_user_message(messages)
        has(pat) == contains(to_lowercase(content.some), pat)
    IN  /\ content # None
        \* "weather", "search", "calculate", "time"
        /\ \/ has(<<119, 101, 97, 116, 104, 101, 114>>)
           \/ has(<<115, 101, 97, 114, 99, 104>>)
           \/ has(<<99, 97, 108, 99, 117, 108, 97, 116, 101>>)
           \/ has(<<116, 105, 109, 101>>)

\* ((chars as f64) / 4.0).ceil() as u32
estimate_tokens_from_chars(chars) == (chars + 3) \div 4

chat_estimate_tokens(text) == estimate_tokens_from_chars(Len(text))

\* determine_finish_reason deciding "tool_calls" by the request, as generate_choice
\* decides to call a tool, and not by the message
chat_determine_finish_reason_by_request(request, message) ==
    IF /\ request.tools # None
       /\ request.tool_choice # None
       /\ should_call_function(request.messages)
        THEN "tool_calls"
    ELSE IF /\ request.max_tokens # None
            /\ message.content # None
            /\ chat_estimate_tokens(message.content.some) >= request.max_tokens.some
        THEN "length"
    ELSE "stop"

chat_determine_finish_reason(request, message) ==
    IF message.tool_calls # None THEN "tool_calls"
    ELSE IF /\ request.max_tokens # None
            /\ message.content # None
            /\ chat_estimate_tokens(message.content.some) >= request.max_tokens.some
        THEN "length"
    ELSE "stop"

estimate_prompt_tokens(messages) ==
    LET \* the sum over the first k messages
        RECURSIVE total_chars(_)
        total_chars(k) ==
            IF k = 0 THEN 0
            ELSE total_chars(k - 1)
                 + (IF messages[k].content # None THEN Len(messages[k].content.some) ELSE 0)
                 + Len(role_to_string(messages[k].role)) + 20
    IN  estimate_tokens_from_chars(total_chars(Len(messages)))

estimate_completion_tokens(choices) ==
    LET \* the sum over the first c calls
        RECURSIVE calls_chars(_, _)
        calls_chars(calls, c) ==
            IF c = 0 THEN 0
            ELSE calls_chars(calls, c - 1)
                 + Len(calls[c].function.arguments) + Len(calls[c].function.name)
        \* the sum over the first k choices
        RECURSIVE total_chars(_)
        total_chars(k) ==
            IF k = 0 THEN 0
            ELSE total_chars(k - 1)
                 + (IF choices[k].message.content # None
                       THEN Len(choices[k].message.content.some) ELSE 0)
                 + (IF choices[k].message.tool_calls # None
                       THEN calls_chars(choices[k].message.tool_calls.some,
                                        Len(choices[k].message.tool_calls.some))
                       ELSE 0)
    IN  estimate_tokens_from_chars(total_chars(Len(choices)))

chat_generate_usage(request, choices) ==
    CompletionUsage_new(estimate_prompt_tokens(request.messages),
                        estimate_completion_tokens(choices))

\* generate_choice; uuid is the outcome of the Uuid::new_v4() of generate_tool_call
chat_generate_choice(request, index, uuid) ==
    LET should_generate_tools ==
            /\ request.tools # None
            /\ request.tool_choice # None
            /\ should_call_function(request.messages)
    IN  CHOOSE choice \in
            {ChatCompletionChoice_new(index, message,
                                      chat_determine_finish_reason(request, message)) :
               message \in {IF should_generate_tools
                                THEN generate_tool_call_message(request, uuid)
                                ELSE generate_content_message(request)}} : TRUE

\* generate_response; uuids[1] is the outcome of the Uuid::new_v4() of generate_id
\* and uuids[i + 2] of the one of choice i
chat_generate_response(request, uuids) ==
    CHOOSE response \in
        {CreateChatCompletionResponse_new(<<"chatcmpl-", uuids[1]>>, request.model, now,
                                          choices, chat_generate_usage(request, choices)) :
            choices \in {[k \in 1..unwrap_or(request.n, 1) |->
                            chat_generate_choice(request, k - 1, uuids[k + 1])]}} : TRUE

\* ChatCompletionMessage::validate: Ok, or Err of the message
message_validate(message) ==
    CASE message.role \in {"System", "User"} ->
            IF message.content = None \/ trim_is_empty(message.content.some)
                THEN Err("Content cannot be empty for system and user messages")
            ELSE Ok
      [] message.role = "Assistant" ->
            IF message.content = None /\ message.tool_calls = None
                THEN Err("Assistant messages must have either content or tool_calls")
            ELSE Ok
      [] message.role = "Tool" ->
            IF message.content = None \/ trim_is_empty(message.content.some)
                THEN Err("Tool messages must have content")
            ELSE IF message.tool_call_id = None
                THEN Err("Tool messages must have tool_call_id")
            ELSE Ok

\* CreateChatCompletionRequest::validate: Ok, or Err of the message (for an
\* invalid message, the first one's index and message)
chat_validate(request) ==
    LET invalid == {i \in 1..Len(request.messages) :
                      message_validate(request.messages[i]) # Ok}
        first == CHOOSE i \in invalid : \A j \in invalid : i <= j
    IN  IF trim_is_empty(request.model) THEN Err("Model cannot be empty")
        ELSE IF request.messages = <<>> THEN Err("Messages array cannot be empty")
        ELSE IF /\ request.temperature # None
                /\ ~range_contains(F64Zero, F64Pow2(1), request.temperature.some)
            THEN Err("Temperature must be between 0 and 2")
        ELSE IF /\ request.top_p # None
                /\ ~range_contains(F64Zero, F64Pow2(0), request.top_p.some)
            THEN Err("Top_p must be between 0 and 1")
        ELSE IF request.n # None /\ request.n.some = 0
            THEN Err("Number of completions (n) must be greater than 0")
        ELSE IF request.max_tokens # None /\ request.max_tokens.some = 0
            THEN Err("Max tokens must be greater than 0")
        ELSE IF /\ request.presence_penalty # None
                /\ ~range_contains(F64Neg(F64Pow2(1)), F64Pow2(1),
                                   request.presence_penalty.some)
            THEN Err("Presence penalty must be between -2.0 and 2.0")
        ELSE IF /\ request.frequency_penalty # None
                /\ ~range_contains(F64Neg(F64Pow2(1)), F64Pow2(1),
                                   request.frequency_penalty.some)
            THEN Err("Frequency penalty must be between -2.0 and 2.0")
        ELSE IF invalid # {}
            THEN Err(<<"Invalid message at index ", first - 1, ": ",
                      message_validate(request.messages[first]).err>>)
        ELSE Ok

\* CreateEmbeddingRequest::validate
embedding_validate(request) ==
    LET input == request.input
    IN  IF trim_is_empty(request.model) THEN Err("Model cannot be empty")
        ELSE IF input.tag = "String" /\ trim_is_empty(input.s)
            THEN Err("Input cannot be empty")
        ELSE IF input.tag = "StringArray" /\ input.strings = <<>>
            THEN Err("Input array cannot be empty")
        ELSE IF /\ input.tag = "StringArray"
                /\ \E i \in 1..Len(input.strings) : trim_is_empty(input.strings[i])
            THEN Err("Input array cannot contain empty strings")
        ELSE IF input.tag = "IntegerArray" /\ input.ints = <<>>
            THEN Err("Input array cannot be empty")
        ELSE IF input.tag = "IntegerArrayArray" /\ input.arrays = <<>>
            THEN Err("Input array cannot be empty")
        ELSE IF /\ input.tag = "IntegerArrayArray"
                /\ \E i \in 1..Len(input.arrays) : input.arrays[i] = <<>>
            THEN Err("Input array cannot contain empty arrays")
        ELSE IF /\ request.encoding_format # None
                /\ request.encoding_format.some \notin
                       {<<102, 108, 111, 97, 116>>,    \* "float"
                        <<98, 97, 115, 101, 54, 52>>}    \* "base64"
            THEN Err("encoding_format must be 'float' or 'base64'")
        ELSE IF request.dimensions # None /\ request.dimensions.some = 0
            THEN Err("dimensions must be greater than 0")
        ELSE IF request.dimensions # None /\ request.dimensions.some > 3072
            THEN Err("dimensions cannot exceed 3072")
        ELSE Ok

(***************************************************************************)
(* The wall clock. chrono::Utc::now() is read as a Unix timestamp; the     *)
(* instants drawn are a start and, after it, steps of a second, an hour    *)
(* and a day in turn.                                                      *)
(***************************************************************************)
MaxTicks == 3

TickDeltas == <<1, 3600, 86400>>

RECURSIVE ClockAt(_)
ClockAt(k) ==
    IF k = 0 THEN 1700000000
    ELSE ClockAt(k - 1) + TickDeltas[((k - 1) % Len(TickDeltas)) + 1]

(***************************************************************************)
(* The embedding requests drawn.                                           *)
(***************************************************************************)
MaxDim == 3

\* the bytes of the texts of the requests
Text(text) ==
    CASE text = "Hello world" ->
           <<72, 101, 108, 108, 111, 32, 119, 111, 114, 108, 100>>
      [] text = "Goodbye world" ->
           <<71, 111, 111, 100, 98, 121, 101, 32, 119, 111, 114, 108, 100>>
      [] text = "ad" ->
           <<97, 100>>
      [] text = "bC" ->
           <<98, 67>>
      [] text = "mmmmmmm" ->
           <<109, 109, 109, 109, 109, 109, 109>>
      [] text = "obigjao" ->
           <<111, 98, 105, 103, 106, 97, 111>>
      [] text = "apwjdyo" ->
           <<97, 112, 119, 106, 100, 121, 111>>
      [] text = "text-embedding-ada-002" ->
           <<116, 101, 120, 116, 45, 101, 109, 98, 101, 100, 100, 105, 110, 103, 45, 97, 100, 97, 45, 48, 48, 50>>
      [] text = "text-embedding-3-small" ->
           <<116, 101, 120, 116, 45, 101, 109, 98, 101, 100, 100, 105, 110, 103, 45, 51, 45, 115, 109, 97, 108, 108>>
      [] text = "text-embedding-3-large" ->
           <<116, 101, 120, 116, 45, 101, 109, 98, 101, 100, 100, 105, 110, 103, 45, 51, 45, 108, 97, 114, 103, 101>>
      [] text = "text-similarity-ada-001" ->
           <<116, 101, 120, 116, 45, 115, 105, 109, 105, 108, 97, 114, 105, 116, 121, 45, 97, 100, 97, 45, 48, 48, 49>>
      [] text = "text-similarity-babbage-001" ->
           <<116, 101, 120, 116, 45, 115, 105, 109, 105, 108, 97, 114, 105, 116, 121, 45, 98, 97, 98, 98, 97, 103, 101, 45, 48, 48, 49>>
      [] text = "text-similarity-curie-001" ->
           <<116, 101, 120, 116, 45, 115, 105, 109, 105, 108, 97, 114, 105, 116, 121, 45, 99, 117, 114, 105, 101, 45, 48, 48, 49>>
      [] text = "text-similarity-davinci-001" ->
           <<116, 101, 120, 116, 45, 115, 105, 109, 105, 108, 97, 114, 105, 116, 121, 45, 100, 97, 118, 105, 110, 99, 105, 45, 48, 48, 49>>
      [] text = "unknown-model" ->
           <<117, 110, 107, 110, 111, 119, 110, 45, 109, 111, 100, 101, 108>>
      [] text = "Hello" ->
           <<72, 101, 108, 108, 111>>
      [] text = "HELLO there" ->
           <<72, 69, 76, 76, 79, 32, 116, 104, 101, 114, 101>>
      [] text = "Write a story" ->
           <<87, 114, 105, 116, 101, 32, 97, 32, 115, 116, 111, 114, 121>>
      [] text = "What is Rust" ->
           <<87, 104, 97, 116, 32, 105, 115, 32, 82, 117, 115, 116>>
      [] text = "Explain code" ->
           <<69, 120, 112, 108, 97, 105, 110, 32, 99, 111, 100, 101>>
      [] text = "Fix this code" ->
           <<70, 105, 120, 32, 116, 104, 105, 115, 32, 99, 111, 100, 101>>
      [] text = "Fix this function" ->
           <<70, 105, 120, 32, 116, 104, 105, 115, 32, 102, 117, 110, 99, 116, 105, 111, 110>>
      [] text = "Tell me more" ->
           <<84, 101, 108, 108, 32, 109, 101, 32, 109, 111, 114, 101>>
      [] text = "!" ->
           <<33>>
      [] text = "you" ->
           <<121, 111, 117>>
      [] text = "zzz" ->
           <<122, 122, 122>>
      [] text = " " ->
           <<32>>
      [] text = "" ->
           <<>>
      [] text = "gpt-3.5-turbo-instruct" ->
           <<103, 112, 116, 45, 51, 46, 53, 45, 116, 117, 114, 98, 111, 45, 105, 110, 115, 116, 114, 117, 99, 116>>
      [] text = "gpt-3.5-turbo" ->
           <<103, 112, 116, 45, 51, 46, 53, 45, 116, 117, 114, 98, 111>>
      [] text = "gpt-4" ->
           <<103, 112, 116, 45, 52>>
      [] text = "What's the weather in SF?" ->
           <<87, 104, 97, 116, 39, 115, 32, 116, 104, 101, 32, 119, 101, 97, 116, 104, 101, 114, 32, 105, 110, 32, 83, 70, 63>>
      [] text = "You are helpful" ->
           <<89, 111, 117, 32, 97, 114, 101, 32, 104, 101, 108, 112, 102, 117, 108>>
      [] text = "SEARCH the web" ->
           <<83, 69, 65, 82, 67, 72, 32, 116, 104, 101, 32, 119, 101, 98>>
      [] text = "Hi, calculate 2+2" ->
           <<72, 105, 44, 32, 99, 97, 108, 99, 117, 108, 97, 116, 101, 32, 50, 43, 50>>
      [] text = "Sometimes I write" ->
           <<83, 111, 109, 101, 116, 105, 109, 101, 115, 32, 73, 32, 119, 114, 105, 116, 101>>
      [] text = "Tell me a joke" ->
           <<84, 101, 108, 108, 32, 109, 101, 32, 97, 32, 106, 111, 107, 101>>
      [] text = "weather?" ->
           <<119, 101, 97, 116, 104, 101, 114, 63>>
      [] text = "Sure" ->
           <<83, 117, 114, 101>>
      [] text = "Thanks" ->
           <<84, 104, 97, 110, 107, 115>>
      [] text = "What time?" ->
           <<87, 104, 97, 116, 32, 116, 105, 109, 101, 63>>
      [] text = "search" ->
           <<115, 101, 97, 114, 99, 104>>
      [] text = "result" ->
           <<114, 101, 115, 117, 108, 116>>
      [] text = "call_1" ->
           <<99, 97, 108, 108, 95, 49>>
      [] text = "get_weather" ->
           <<103, 101, 116, 95, 119, 101, 97, 116, 104, 101, 114>>
      [] text = "lookup_item" ->
           <<108, 111, 111, 107, 117, 112, 95, 105, 116, 101, 109>>
      [] text = "Write a function" ->
           <<87, 114, 105, 116, 101, 32, 97, 32, 102, 117, 110, 99, 116, 105, 111, 110>>
      [] text = "sk-mock-openai-api-key-12345" ->
           <<115, 107, 45, 109, 111, 99, 107, 45, 111, 112, 101, 110, 97, 105, 45, 97, 112, 105, 45, 107, 101, 121, 45, 49, 50, 51, 52, 53>>
      [] text = "sk-test-integration-key" ->
           <<115, 107, 45, 116, 101, 115, 116, 45, 105, 110, 116, 101, 103, 114, 97, 116, 105, 111, 110, 45, 107, 101, 121>>
      [] text = "Bearer sk-mock-openai-api-key-12345" ->
           <<66, 101, 97, 114, 101, 114, 32, 115, 107, 45, 109, 111, 99, 107, 45, 111, 112, 101, 110, 97, 105, 45, 97, 112, 105, 45, 107, 101, 121, 45, 49, 50, 51, 52, 53>>
      [] text = "Bearer sk-test-integration-key" ->
           <<66, 101, 97, 114, 101, 114, 32, 115, 107, 45, 116, 101, 115, 116, 45, 105, 110, 116, 101, 103, 114, 97, 116, 105, 111, 110, 45, 107, 101, 121>>
      [] text = "Bearer invalid-key" ->
           <<66, 101, 97, 114, 101, 114, 32, 105, 110, 118, 97, 108, 105, 100, 45, 107, 101, 121>>
      [] text = "Basic sk-mock-openai-api-key-12345" ->
           <<66, 97, 115, 105, 99, 32, 115, 107, 45, 109, 111, 99, 107, 45, 111, 112, 101, 110, 97, 105, 45, 97, 112, 105, 45, 107, 101, 121, 45, 49, 50, 51, 52, 53>>
      [] text = "bearer sk-mock-openai-api-key-12345" ->
           <<98, 101, 97, 114, 101, 114, 32, 115, 107, 45, 109, 111, 99, 107, 45, 111, 112, 101, 110, 97, 105, 45, 97, 112, 105, 45, 107, 101, 121, 45, 49, 50, 51, 52, 53>>
      [] text = "Bearersk-mock-openai-api-key-12345" ->
           <<66, 101, 97, 114, 101, 114, 115, 107, 45, 109, 111, 99, 107, 45, 111, 112, 101, 110, 97, 105, 45, 97, 112, 105, 45, 107, 101, 121, 45, 49, 50, 51, 52, 53>>
      [] text = "Bearer sk-mock-openai-api-key-12345 " ->
           <<66, 101, 97, 114, 101, 114, 32, 115, 107, 45, 109, 111, 99, 107, 45, 111, 112, 101, 110, 97, 105, 45, 97, 112, 105, 45, 107, 101, 121, 45, 49, 50, 51, 52, 53, 32>>
      [] text = "Bearer " ->
           <<66, 101, 97, 114, 101, 114, 32>>
      [] text = "float" ->
           <<102, 108, 111, 97, 116>>
      [] text = "base64" ->
           <<98, 97, 115, 101, 54, 52>>
      [] text = "hex" ->
           <<104, 101, 120>>
      [] text = "How to write code" ->
           <<72, 111, 119, 32, 116, 111, 32, 119, 114, 105, 116, 101, 32, 99, 111, 100, 101>>
      [] text = "Write a math story" ->
           <<87, 114, 105, 116, 101, 32, 97, 32, 109, 97, 116, 104, 32, 115, 116, 111, 114, 121>>
      [] text = "Explain why" ->
           <<69, 120, 112, 108, 97, 105, 110, 32, 119, 104, 121>>
      [] text = "Debug my code" ->
           <<68, 101, 98, 117, 103, 32, 109, 121, 32, 99, 111, 100, 101>>
      [] text = "A number" ->
           <<65, 32, 110, 117, 109, 98, 101, 114>>
      [] text = "code" ->
           <<99, 111, 100, 101>>
      [] text = "math" ->
           <<109, 97, 116, 104>>
      [] text = "story" ->
           <<115, 116, 111, 114, 121>>
      [] text = "general" ->
           <<103, 101, 110, 101, 114, 97, 108>>
      [] text = "hello" ->
           <<104, 101, 108, 108, 111>>
      [] text = "hi" ->
           <<104, 105>>
      [] text = "hey" ->
           <<104, 101, 121>>
      [] text = "?" ->
           <<63>>
      [] text = "what" ->
           <<119, 104, 97, 116>>
      [] text = "how" ->
           <<104, 111, 119>>
      [] text = "why" ->
           <<119, 104, 121>>
      [] text = "programming" ->
           <<112, 114, 111, 103, 114, 97, 109, 109, 105, 110, 103>>
      [] text = "function" ->
           <<102, 117, 110, 99, 116, 105, 111, 110>>
      [] text = "calculate" ->
           <<99, 97, 108, 99, 117, 108, 97, 116, 101>>
      [] text = "number" ->
           <<110, 117, 109, 98, 101, 114>>
      [] text = "creative" ->
           <<99, 114, 101, 97, 116, 105, 118, 101>>
      [] text = "write" ->
           <<119, 114, 105, 116, 101>>
      [] text = "java" ->
           <<106, 97, 118, 97>>
      [] text = "weather" ->
           <<119, 101, 97, 116, 104, 101, 114>>
      [] text = "time" ->
           <<116, 105, 109, 101>>
      [] text = "Search_Weather" ->
           <<83, 101, 97, 114, 99, 104, 95, 87, 101, 97, 116, 104, 101, 114>>
      [] text = "Calculate_Time" ->
           <<67, 97, 108, 99, 117, 108, 97, 116, 101, 95, 84, 105, 109, 101>>
      [] text = "TIME_search" ->
           <<84, 73, 77, 69, 95, 115, 101, 97, 114, 99, 104>>
      [] text = "get_Time" ->
           <<103, 101, 116, 95, 84, 105, 109, 101>>
      [] text = "{\"location\": \"San Francisco, CA\"}" ->
           <<123, 34, 108, 111, 99, 97, 116, 105, 111, 110, 34, 58, 32, 34, 83, 97, 110, 32, 70, 114, 97, 110, 99, 105, 115, 99, 111, 44, 32, 67, 65, 34, 125>>
      [] text = "{\"query\": \"artificial intelligence\"}" ->
           <<123, 34, 113, 117, 101, 114, 121, 34, 58, 32, 34, 97, 114, 116, 105, 102, 105, 99, 105, 97, 108, 32, 105, 110, 116, 101, 108, 108, 105, 103, 101, 110, 99, 101, 34, 125>>
      [] text = "{\"expression\": \"2 + 2\"}" ->
           <<123, 34, 101, 120, 112, 114, 101, 115, 115, 105, 111, 110, 34, 58, 32, 34, 50, 32, 43, 32, 50, 34, 125>>
      [] text = "{\"timezone\": \"UTC\"}" ->
           <<123, 34, 116, 105, 109, 101, 122, 111, 110, 101, 34, 58, 32, 34, 85, 84, 67, 34, 125>>
      [] text = "{}" ->
           <<123, 125>>
      [] text = "Search_Docs" ->
           <<83, 101, 97, 114, 99, 104, 95, 68, 111, 99, 115>>

EmbeddingModels ==
    {Text(m) : m \in {"text-embedding-ada-002", "text-embedding-3-small",
                      "text-embedding-3-large", "text-similarity-ada-001",
                      "text-similarity-babbage-001", "text-similarity-curie-001",
                      "text-similarity-davinci-001", "unknown-model"}}

\* "ad" and "bC" have the same 64-bit seed, the 64-bit seeds of "mmmmmmm" and
\* "obigjao" differ by 2^31, and the first generator state of "apwjdyo" is 2^30
EmbeddingTexts ==
    {Text(t) : t \in {"Hello world", "Goodbye world", "ad", "bC", "mmmmmmm", "obigjao",
                      "apwjdyo"}}

EmbeddingInputs ==
    {[tag |-> "String", s |-> t] : t \in EmbeddingTexts}
    \cup {[tag |-> "StringArray", strings |-> a] :
            a \in {<<>>, <<Text("Hello world"), Text("Goodbye world"), Text("Hello world")>>,
                   <<Text("ad"), Text("bC")>>, <<Text("mmmmmmm"), Text("obigjao")>>,
                   <<Text("apwjdyo"), Text("Hello world")>>}}
    \cup {[tag |-> "IntegerArray", ints |-> a] : a \in {<<1, 2, 3, 4, 5>>, <<-7, 0, 120>>}}
    \cup {[tag |-> "IntegerArrayArray", arrays |-> a] :
            a \in {<<<<1, 2, 3>>, <<4, 5, 6>>>>, <<<<10>>, <<-1, 1>>, <<10>>>>}}

EmbeddingRequest(model, input, dimensions) ==
    [kind |-> "embedding", model |-> model, input |-> input, encoding_format |-> None,
     dimensions |-> dimensions]

\* requests with explicit dimensions (0 is what validation rejects, and the
\* generator accepts)
EmbeddingRequests ==
    {EmbeddingRequest(Text("text-embedding-3-large"), i, Some(d)) :
        i \in EmbeddingInputs, d \in 0..MaxDim}

\* requests over every model of the table, with and without explicit dimensions
DimensionRequests ==
    {EmbeddingRequest(m, i, Some(d)) :
        m \in EmbeddingModels,
        i \in {[tag |-> "String", s |-> Text("Hello world")],
               [tag |-> "IntegerArrayArray", arrays |-> <<<<1, 2, 3>>, <<4, 5, 6>>>>]},
        d \in 1..MaxDim}
    \cup {EmbeddingRequest(m, [tag |-> "String", s |-> Text("Hello world")], None) :
            m \in EmbeddingModels}
    \cup {EmbeddingRequest(Text("text-similarity-ada-001"),
                           [tag |-> "StringArray", strings |-> <<Text("ad"), Text("Hello world")>>],
                           None)}

(***************************************************************************)
(* The completion and chat requests drawn.                                 *)
(***************************************************************************)
MaxN == 3

CompletionRequest(prompt, max_tokens, n) ==
    [kind |-> "completion", model |-> Text("gpt-3.5-turbo-instruct"), prompt |-> prompt,
     max_tokens |-> max_tokens, temperature |-> None, top_p |-> None, n |-> n,
     logprobs |-> None, echo |-> None, stop |-> None, presence_penalty |-> None,
     frequency_penalty |-> None, best_of |-> None]

StringPrompt(text) == [tag |-> "String", s |-> Text(text)]

ArrayPrompt(texts) == [tag |-> "Array", strings |-> [i \in 1..Len(texts) |-> Text(texts[i])]]

\* prompts of every category of generate_completion_text; max_tokens absent, small
\* and large; n absent, 0 (which validation rejects) and up to MaxN; echo, stop
\* and logprobs; and requests that fail each test of validate
CompletionRequests ==
    {CompletionRequest(p, m, None) :
        p \in {StringPrompt(t) : t \in {"Hello", "HELLO there", "Write a story", "What is Rust",
                                        "Explain code", "Fix this code", "Tell me more"}}
              \cup {ArrayPrompt(<<"Fix this function", "Hello">>)},
        m \in {None, Some(1), Some(5), Some(100)}}
    \cup {CompletionRequest(StringPrompt(t), None, Some(n)) :
             t \in {"Hello", "Write a story"}, n \in 0..MaxN}
    \cup {[CompletionRequest(StringPrompt("Hello"), m, None) EXCEPT !.echo = Some(e)] :
             m \in {None, Some(1)}, e \in BOOLEAN}
    \cup {[CompletionRequest(p, Some(m), None) EXCEPT !.echo = Some(TRUE)] :
             m \in {1, 5},
             p \in {ArrayPrompt(<<"Fix this function", "Hello">>),
                    StringPrompt("Write a function")}}
    \cup {[CompletionRequest(StringPrompt("Hello"), Some(100), None) EXCEPT !.stop = Some(s)] :
             s \in {[tag |-> "String", s |-> Text("!")],
                     [tag |-> "String", s |-> Text("zzz")],
                     [tag |-> "Array", strings |-> <<Text("zzz"), Text("you")>>]}}
    \cup {[CompletionRequest(StringPrompt("Fix this code"), Some(2), None) EXCEPT !.stop = Some(s)] :
             s \in {[tag |-> "String", s |-> Text("java")],
                     [tag |-> "String", s |-> Text("zzz")],
                     [tag |-> "String", s |-> Text("")],
                     [tag |-> "Array", strings |-> <<Text("zzz"), Text("java")>>],
                     [tag |-> "Array", strings |-> <<>>]}}
    \cup {[CompletionRequest(StringPrompt("Tell me more"), None, Some(2))
               EXCEPT !.logprobs = Some(k)] : k \in {0, 2, 6}}
    \cup {[CompletionRequest(StringPrompt("Hello"), None, Some(2)) EXCEPT !.best_of = Some(k)] :
             k \in {1, 2, 21}}
    \cup {[CompletionRequest(StringPrompt("Hello"), None, None) EXCEPT !.temperature = Some(x)] :
             x \in {F64Pow2(-1), F64FromNat(<<3>>)}}
    \cup {[CompletionRequest(StringPrompt("Hello"), None, None) EXCEPT !.top_p = Some(F64Pow2(1))],
           [CompletionRequest(StringPrompt("Hello"), None, None)
               EXCEPT !.presence_penalty = Some(F64Neg(F64FromNat(<<3>>)))],
           [CompletionRequest(StringPrompt("Hello"), None, None)
               EXCEPT !.frequency_penalty = Some(F64FromNat(<<3>>))],
           [CompletionRequest(StringPrompt("Hello"), None, None) EXCEPT !.model = Text(" ")],
           CompletionRequest(StringPrompt("Hello"), Some(0), None),
           CompletionRequest(StringPrompt("Hello"), Some(4097), None),
           CompletionRequest(StringPrompt("Hello"), None, Some(21)),
           CompletionRequest(StringPrompt(" "), None, None),
           CompletionRequest(ArrayPrompt(<<>>), None, None),
           CompletionRequest(ArrayPrompt(<<"Hello", "">>), None, None)}

ChatMessage(role, content) ==
    [role |-> role, content |-> content, tool_calls |-> None, tool_call_id |-> None]

UserMessage(text) == ChatMessage("User", Some(Text(text)))

\* a ChatCompletionTool (the description and the parameters of the function are
\* never read)
Tool(name) == [tool_type |-> "function", function |-> [name |-> Text(name)]]

ChatRequest(model, messages, tools, tool_choice, n, max_tokens) ==
    [kind |-> "chat", model |-> Text(model), messages |-> messages, temperature |-> None,
     top_p |-> None, n |-> n, max_tokens |-> max_tokens, presence_penalty |-> None,
     frequency_penalty |-> None, tools |-> tools, tool_choice |-> tool_choice]

\* conversations whose last user message has a tool keyword, has none, has no
\* content, or is missing
Conversations ==
    {<<UserMessage("What's the weather in SF?")>>,
      <<ChatMessage("System", Some(Text("You are helpful"))), UserMessage("SEARCH the web")>>,
      <<UserMessage("Hi, calculate 2+2")>>,
      <<UserMessage("Sometimes I write")>>,
      <<UserMessage("Tell me a joke")>>,
      <<UserMessage("weather?"), ChatMessage("Assistant", Some(Text("Sure"))),
        UserMessage("Thanks")>>,
      <<ChatMessage("System", Some(Text("You are helpful")))>>,
      <<UserMessage("Tell me a joke"), ChatMessage("Assistant", Some(Text("What time?")))>>,
      <<UserMessage("search"),
        [ChatMessage("Tool", Some(Text("result"))) EXCEPT !.tool_call_id = Some(Text("call_1"))]>>,
      <<UserMessage("weather?"), ChatMessage("User", None)>>}

\* every conversation with tools absent, empty, one and two, and tool_choice
\* absent and present; n absent, 0 (which validation rejects), up to MaxN and 21;
\* max_tokens; the other tool choices; tools whose names hold keywords of one
\* and of several argument rules; user messages with keywords of one and of
\* several categories; and requests that fail each test of validate
ChatRequests ==
    LET AutoToolChoice == Some([tag |-> "Auto", s |-> "auto"])
        WeatherConversation == <<UserMessage("What's the weather in SF?")>>
        JokeConversation == <<UserMessage("Tell me a joke")>>
    IN  {ChatRequest("gpt-3.5-turbo", c, t, tc, None, None) :
            c \in Conversations,
            t \in {None, Some(<<>>), Some(<<Tool("get_weather")>>),
                    Some(<<Tool("lookup_item"), Tool("get_weather")>>)},
            tc \in {None, AutoToolChoice}}
        \cup {ChatRequest("gpt-3.5-turbo", WeatherConversation, Some(<<Tool("Search_Docs")>>),
                           tc, None, None) :
                 tc \in {Some([tag |-> "None", s |-> "none"]),
                          Some([tag |-> "Required", s |-> "required"]),
                          Some([tag |-> "Function",
                                function |-> [tool_type |-> "function",
                                              function |-> [name |-> Text("get_weather")]]])}}
        \cup {ChatRequest("gpt-3.5-turbo", WeatherConversation, Some(<<Tool(t)>>),
                           AutoToolChoice, None, None) :
                 t \in {"Search_Weather", "Calculate_Time", "TIME_search", "get_Time"}}
        \cup {ChatRequest("gpt-3.5-turbo", c, t, AutoToolChoice, Some(n), None) :
                 c \in {WeatherConversation, JokeConversation},
                 t \in {Some(<<>>), Some(<<Tool("lookup_item"), Tool("get_weather")>>)},
                 n \in 0..MaxN}
        \cup {ChatRequest(m, c, Some(<<Tool("get_weather")>>), AutoToolChoice, None, Some(k)) :
                 m \in {"gpt-3.5-turbo", "gpt-4"},
                 c \in {WeatherConversation, JokeConversation},
                 k \in {0, 1, 33, 100}}
        \cup {ChatRequest(m, <<UserMessage(t)>>, None, None, None, None) :
                 m \in {"gpt-3.5-turbo", "gpt-4"},
                 t \in {"Write a function", "How to write code", "Write a math story",
                        "Explain why", "Debug my code", "A number", "Fix this function",
                        "HELLO there", "Tell me more"}}
        \cup {[ChatRequest("gpt-4", JokeConversation, None, None, None, None)
                   EXCEPT !.temperature = Some(x)] : x \in {F64Pow2(-1), F64FromNat(<<3>>)}}
        \cup {[ChatRequest("gpt-4", JokeConversation, None, None, None, None)
                   EXCEPT !.top_p = Some(F64Pow2(1))],
               [ChatRequest("gpt-4", JokeConversation, None, None, None, None)
                   EXCEPT !.presence_penalty = Some(F64Neg(F64FromNat(<<3>>)))],
               [ChatRequest("gpt-4", JokeConversation, None, None, None, None)
                   EXCEPT !.frequency_penalty = Some(F64FromNat(<<3>>))],
               ChatRequest("gpt-4", JokeConversation, None, None, Some(21), None),
               ChatRequest(" ", JokeConversation, None, None, None, None),
               ChatRequest("gpt-4", <<>>, None, None, None, None),
               ChatRequest("gpt-4", <<UserMessage("Hello"), UserMessage(" ")>>, None, None, None, None),
               ChatRequest("gpt-4", <<ChatMessage("Assistant", None)>>, None, None, None, None),
               ChatRequest("gpt-4", <<ChatMessage("Tool", Some(Text("result")))>>,
                           None, None, None, None),
               ChatRequest("gpt-4", <<ChatMessage("Tool", None)>>, None, None, None, None)}

(***************************************************************************)
(* The state: the clock, the request at hand, the response to its latest   *)
(* handling and the response to the handling before that; and, for the     *)
(* server, the configured API key and the connections being served.        *)
(***************************************************************************)
\* auth.rs: the API key of AuthMiddleware::with_default_key
DEFAULT_MOCK_API_KEY == Text("sk-mock-openai-api-key-12345")

\* a response, with the instant of the handling that produced it
Handled(response) == Some([at |-> now, response |-> response])

Tick ==
    /\ \E k \in 0..(MaxTicks - 1) : now = ClockAt(k) /\ now' = ClockAt(k + 1)
    /\ UNCHANGED <<req, resp, prev, api_key, conns>>

\* EmbeddingGenerator::generate_response(&req)
GenerateEmbedding ==
    /\ req.kind = "embedding"
    /\ resp' = Handled(embedding_generate_response(req))
    /\ prev' = resp
    /\ UNCHANGED <<now, req, api_key, conns>>

InitEmbedding ==
    /\ now = ClockAt(0)
    /\ req \in EmbeddingRequests
    /\ resp = None
    /\ prev = None
    /\ api_key = DEFAULT_MOCK_API_KEY
    /\ conns = <<>>

NextEmbedding == GenerateEmbedding \/ Tick

\* one embedding request, handled any number of times while the clock advances
SpecEmbedding == InitEmbedding /\ [][NextEmbedding]_vars

InitDimensions ==
    /\ now = ClockAt(0)
    /\ req \in DimensionRequests
    /\ resp = None
    /\ prev = None
    /\ api_key = DEFAULT_MOCK_API_KEY
    /\ conns = <<>>

NextDimensions == resp = None /\ GenerateEmbedding

\* one embedding request over the models of the table, handled once
SpecDimensions == InitDimensions /\ [][NextDimensions]_vars

\* the outcomes of Uuid::new_v4() in one handling: count values, different from
\* each other
UuidDraws(count) == {[k \in 1..count |-> <<u, k>>] : u \in {"uuid_a", "uuid_b"}}

\* CompletionGenerator::generate_response(&req)
GenerateCompletion ==
    /\ req.kind = "completion"
    /\ \E uuids \in UuidDraws(1) :
          resp' = Handled(completion_generate_response(req, uuids[1]))
    /\ prev' = resp
    /\ UNCHANGED <<now, req, api_key, conns>>

\* ChatCompletionGenerator::generate_response(&req)
GenerateChat ==
    /\ req.kind = "chat"
    /\ \E uuids \in UuidDraws(unwrap_or(req.n, 1) + 1) :
          resp' = Handled(chat_generate_response(req, uuids))
    /\ prev' = resp
    /\ UNCHANGED <<now, req, api_key, conns>>

Init ==
    /\ now = ClockAt(0)
    /\ req \in CompletionRequests \cup ChatRequests
    /\ resp = None
    /\ prev = None
    /\ api_key = DEFAULT_MOCK_API_KEY
    /\ conns = <<>>

Next == GenerateCompletion \/ GenerateChat \/ Tick

\* one completion or chat request, handled any number of times while the clock
\* advances
Spec == Init /\ [][Next]_vars

(***************************************************************************)
(* The server (src/src/server.rs, auth.rs, handlers): the protected routes *)
(* behind the authentication middleware. Every connection carries one HTTP *)
(* request; the middleware and the handler of a connection are steps that  *)
(* interleave with the steps of the other connections and with the clock.  *)
(* A connection is [request, pc, calls, response]: pc is "auth" before     *)
(* AuthEndpoint::call has run, "inner" while the inner endpoint is to run  *)
(* and "done" once the response is written; calls lists the functions      *)
(* entered on its behalf, in order.                                        *)
(***************************************************************************)
\* the connections served at once
MaxConns == 2

Connections == 1..MaxConns

\* ErrorResponse::new(message, error_type); ErrorResponse::invalid_request_error
\* (message) is taken to be ErrorResponse::new(message, "invalid_request_error")
ErrorResponse_new(message, error_type) ==
    [error |-> [message |-> message, type |-> error_type]]

\* Response::builder().status(status).header("content-type", "application/json")
\*     .body(json_body), json_body being the JSON text of body
Response(status, body) == [status |-> status, body |-> body]

create_auth_error_response(message) ==
    Response(401, ErrorResponse_new(message, "invalid_request_error"))

\* the connection c with its response written
Respond(c, calls, response) ==
    [conns EXCEPT ![c] = [@ EXCEPT !.pc = "done", !.calls = @ \o calls,
                                   !.response = Some(response)]]

\* AuthEndpoint::call, were the token compared with the default key
AuthEndpoint_call_default_key(c) ==
    /\ conns[c].pc = "auth"
    /\ LET auth_header == conns[c].request.authorization
           \* HeaderValue::to_str: the text of a value made of visible ASCII chars
           \* and tabs only
           to_str(header) ==
               IF \A i \in 1..Len(header) :
                     header[i] = 9 \/ (header[i] >= 32 /\ header[i] < 127)
                   THEN Some(header)
                   ELSE None
           starts_with(text, pat) == Len(text) >= Len(pat) /\ SubSeq(text, 1, Len(pat)) = pat
           auth_str == to_str(auth_header.some)
           token == SubSeq(auth_str.some, 8, Len(auth_str.some))
       IN  conns' =
             IF auth_header = None
                 THEN Respond(c, <<"AuthEndpoint::call">>, create_auth_error_response(
                        "You didn't provide an API key. You need to provide your API key in an Authorization header using Bearer auth (i.e. Authorization: Bearer YOUR_KEY), or as the password field (with blank username) if you're accessing the API from your browser and are prompted for a username and password. You can obtain an API key from https://platform.openai.com/account/api-keys."))
             ELSE IF auth_str = None
                 THEN Respond(c, <<"AuthEndpoint::call">>, create_auth_error_response(
                        "Invalid Authorization header format."))
             ELSE IF ~starts_with(auth_str.some, Text("Bearer "))
                 THEN Respond(c, <<"AuthEndpoint::call">>, create_auth_error_response(
                        "You must provide the API key using Bearer authentication (i.e. Authorization: Bearer YOUR_KEY)."))
             ELSE IF token # DEFAULT_MOCK_API_KEY
                 THEN Respond(c, <<"AuthEndpoint::call">>, create_auth_error_response(
                        "Incorrect API key provided: ***. You can find your API key at https://platform.openai.com/account/api-keys."))
             ELSE [conns EXCEPT ![c] = [@ EXCEPT !.pc = "inner",
                                                 !.calls = @ \o <<"AuthEndpoint::call">>]]
    /\ UNCHANGED <<now, req, resp, prev, api_key>>

\* AuthEndpoint::call, up to the call of the inner endpoint
AuthEndpoint_call(c) ==
    /\ conns[c].pc = "auth"
    /\ LET auth_header == conns[c].request.authorization
           \* HeaderValue::to_str: the text of a value made of visible ASCII chars
           \* and tabs only
           to_str(header) ==
               IF \A i \in 1..Len(header) :
                     header[i] = 9 \/ (header[i] >= 32 /\ header[i] < 127)
                   THEN Some(header)
                   ELSE None
           starts_with(text, pat) == Len(text) >= Len(pat) /\ SubSeq(text, 1, Len(pat)) = pat
           auth_str == to_str(auth_header.some)
           token == SubSeq(auth_str.some, 8, Len(auth_str.some))
       IN  conns' =
             IF auth_header = None
                 THEN Respond(c, <<"AuthEndpoint::call">>, create_auth_error_response(
                        "You didn't provide an API key. You need to provide your API key in an Authorization header using Bearer auth (i.e. Authorization: Bearer YOUR_KEY), or as the password field (with blank username) if you're accessing the API from your browser and are prompted for a username and password. You can obtain an API key from https://platform.openai.com/account/api-keys."))
             ELSE IF auth_str = None
                 THEN Respond(c, <<"AuthEndpoint::call">>, create_auth_error_response(
                        "Invalid Authorization header format."))
             ELSE IF ~starts_with(auth_str.some, Text("Bearer "))
                 THEN Respond(c, <<"AuthEndpoint::call">>, create_auth_error_response(
                        "You must provide the API key using Bearer authentication (i.e. Authorization: Bearer YOUR_KEY)."))
             ELSE IF token # api_key
                 THEN Respond(c, <<"AuthEndpoint::call">>, create_auth_error_response(
                        "Incorrect API key provided: ***. You can find your API key at https://platform.openai.com/account/api-keys."))
             ELSE [conns EXCEPT ![c] = [@ EXCEPT !.pc = "inner",
                                                 !.calls = @ \o <<"AuthEndpoint::call">>]]
    /\ UNCHANGED <<now, req, resp, prev, api_key>>

\* create_completion, were the latest completion response kept and served again
create_completion_cached(c) ==
    /\ conns[c].pc = "inner"
    /\ conns[c].request.route = "/v1/completions"
    /\ LET request == conns[c].request.body
           validation == completion_validate(request)
           cached == {d \in Connections : /\ conns[d].pc = "done"
                                          /\ conns[d].request.route = "/v1/completions"
                                          /\ conns[d].response.some.status = 200}
       IN  IF validation # Ok
               THEN conns' = Respond(c, <<"create_completion", "validate">>,
                                     Response(400, ErrorResponse_new(
                                                       validation.err, "invalid_request_error")))
               ELSE IF cached # {}
               THEN conns' = Respond(c, <<"create_completion", "validate">>,
                                     conns[CHOOSE d \in cached : TRUE].response.some)
               ELSE \E uuids \in UuidDraws(1) :
                       conns' = Respond(c, <<"create_completion", "validate",
                                             "generate_response">>,
                                        Response(200, completion_generate_response(
                                                          request, uuids[1])))
    /\ UNCHANGED <<now, req, resp, prev, api_key>>

\* POST /v1/completions: create_completion(body)
create_completion(c) ==
    /\ conns[c].pc = "inner"
    /\ conns[c].request.route = "/v1/completions"
    /\ LET request == conns[c].request.body
           validation == completion_validate(request)
       IN  IF validation # Ok
               THEN conns' = Respond(c, <<"create_completion", "validate">>,
                                     Response(400, ErrorResponse_new(
                                                       validation.err, "invalid_request_error")))
               ELSE \E uuids \in UuidDraws(1) :
                       conns' = Respond(c, <<"create_completion", "validate",
                                             "generate_response">>,
                                        Response(200, completion_generate_response(
                                                          request, uuids[1])))
    /\ UNCHANGED <<now, req, resp, prev, api_key>>

\* POST /v1/chat/completions: create_chat_completion(body)
create_chat_completion(c) ==
    /\ conns[c].pc = "inner"
    /\ conns[c].request.route = "/v1/chat/completions"
    /\ LET request == conns[c].request.body
           validation == chat_validate(request)
       IN  IF validation # Ok
               THEN conns' = Respond(c, <<"create_chat_completion", "validate">>,
                                     Response(400, ErrorResponse_new(
                                                       validation.err, "invalid_request_error")))
               ELSE \E uuids \in UuidDraws(unwrap_or(request.n, 1) + 1) :
                       conns' = Respond(c, <<"create_chat_completion", "validate",
                                             "generate_response">>,
                                        Response(200, chat_generate_response(request, uuids)))
    /\ UNCHANGED <<now, req, resp, prev, api_key>>

\* create_embedding, were the request passed on without validate
create_embedding_unvalidated(c) ==
    /\ conns[c].pc = "inner"
    /\ conns[c].request.route = "/v1/embeddings"
    /\ conns' = Respond(c, <<"create_embedding", "generate_response">>,
                        Response(200, embedding_generate_response(conns[c].request.body)))
    /\ UNCHANGED <<now, req, resp, prev, api_key>>

\* POST /v1/embeddings: create_embedding(body)
create_embedding(c) ==
    /\ conns[c].pc = "inner"
    /\ conns[c].request.route = "/v1/embeddings"
    /\ LET request == conns[c].request.body
           validation == embedding_validate(request)
       IN  conns' =
             IF validation # Ok
                 THEN Respond(c, <<"create_embedding", "validate">>,
                              Response(400, ErrorResponse_new(
                                                validation.err, "invalid_request_error")))
                 ELSE Respond(c, <<"create_embedding", "validate", "generate_response">>,
                              Response(200, embedding_generate_response(request)))
    /\ UNCHANGED <<now, req, resp, prev, api_key>>

\* the requests sent. Bodies: for each protected route a request that passes
\* validate and one that does not, and a completion request whose text depends
\* on the clock. Authorization headers: none, the two keys as bearer tokens, a
\* key that is not configured, another scheme, the scheme in lower case, no
\* space after the scheme, a space after the key, no key, and a value that is
\* no text. Every body goes under the two bearer keys, and two of the bodies
\* under every other header. The route is the one of the body's type
\* (server.rs: /v1 nests /completions, /chat/completions and /embeddings).
HttpRequests ==
    LET Bodies ==
            {CompletionRequest(StringPrompt("Hello"), None, Some(2)),
             CompletionRequest(StringPrompt("Write a story"), Some(5), None),
             CompletionRequest(StringPrompt("Hello"), Some(0), None),
             ChatRequest("gpt-4", <<UserMessage("What's the weather in SF?")>>,
                         Some(<<Tool("get_weather")>>), Some([tag |-> "Auto", s |-> "auto"]),
                         None, None),
             ChatRequest("gpt-4", <<UserMessage("Tell me a joke")>>, None, None, Some(0), None),
             EmbeddingRequest(Text("text-embedding-3-small"),
                              [tag |-> "StringArray", strings |-> <<Text("ad"), Text("bC")>>],
                              Some(2)),
             [EmbeddingRequest(Text("text-embedding-3-small"),
                               [tag |-> "String", s |-> Text("ad")], Some(1))
                 EXCEPT !.encoding_format = Some(Text("hex"))]}
        Authorizations ==
            {None, Some(Text("Bearer ") \o <<255>>)}
            \cup {Some(Text(t)) : t \in {"Bearer sk-mock-openai-api-key-12345",
                                         "Bearer sk-test-integration-key",
                                         "Bearer invalid-key",
                                         "Basic sk-mock-openai-api-key-12345",
                                         "bearer sk-mock-openai-api-key-12345",
                                         "Bearersk-mock-openai-api-key-12345",
                                         "Bearer sk-mock-openai-api-key-12345 ",
                                         "Bearer "}}
        RouteOf(body) ==
            CASE body.kind = "completion" -> "/v1/completions"
              [] body.kind = "chat" -> "/v1/chat/completions"
              [] body.kind = "embedding" -> "/v1/embeddings"
    IN  {[route |-> RouteOf(b), authorization |-> a, body |-> b] :
            a \in {Some(Text("Bearer sk-mock-openai-api-key-12345")),
                   Some(Text("Bearer sk-test-integration-key"))},
            b \in Bodies}
        \cup {[route |-> RouteOf(b), authorization |-> a, body |-> b] :
                 a \in Authorizations,
                 b \in {CompletionRequest(StringPrompt("Hello"), None, Some(2)),
                        CompletionRequest(StringPrompt("Hello"), Some(0), None)}}

\* a server configured with the default key (create_app) or with another one
\* (create_app_with_config), and one request on each connection. The
\* connections after the first carry the clock-dependent completion or the
\* chat request under the default key, or the two-choice completion under the
\* other key.
MaxTextLen == 6

\* truncate_to_tokens(text, max_tokens): text any text of at most MaxTextLen
\* chars made of letters and spaces, max_tokens any u32, of which small values
\* and values from 2^30 on, whose product by 4 does not fit a u32, are drawn
InitTruncate ==
    LET RECURSIVE TextsUpTo(_)
        TextsUpTo(len) ==
            IF len = 0 THEN {<<>>}
            ELSE LET shorter == TextsUpTo(len - 1)
                 IN  shorter \cup {Append(t, c) : t \in {u \in shorter : Len(u) = len - 1},
                                                  c \in {32, 97}}
    IN  /\ now = ClockAt(0)
        /\ \E text \in TextsUpTo(MaxTextLen),
              max_tokens \in {0, 1, 2, 1073741824, 1073741825} :
              req = [kind |-> "truncate", text |-> text, max_tokens |-> max_tokens]
        /\ resp = None
        /\ prev = None
        /\ api_key = DEFAULT_MOCK_API_KEY
        /\ conns = <<>>

\* one call of truncate_to_tokens: it returns, or, in a build with overflow
\* checks (debug), panics at max_tokens * 4 when the product does not fit a u32
Truncate ==
    /\ req.kind = "truncate"
    /\ resp = None
    /\ \E overflow_checks \in BOOLEAN :
          resp' = IF overflow_checks /\ req.max_tokens >= 1073741824
                      THEN Handled([panicked |-> "attempt to multiply with overflow"])
                      ELSE Handled([returned |-> truncate_to_tokens(req.text, req.max_tokens)])
    /\ prev' = resp
    /\ UNCHANGED <<now, req, api_key, conns>>

\* truncate_to_tokens called once on a text and a max_tokens
SpecTruncate == InitTruncate /\ [][Truncate]_vars

MaxEstimateLen == 5

\* estimate_tokens(text) of the three generators, on two texts t1 and t2 of at
\* most MaxEstimateLen chars made of letters and spaces
InitEstimate ==
    LET RECURSIVE TextsUpTo(_)
        TextsUpTo(len) ==
            IF len = 0 THEN {<<>>}
            ELSE LET shorter == TextsUpTo(len - 1)
                 IN  shorter \cup {Append(t, c) : t \in {u \in shorter : Len(u) = len - 1},
                                                  c \in {32, 97}}
    IN  /\ now = ClockAt(0)
        /\ \E t1 \in TextsUpTo(MaxEstimateLen), t2 \in TextsUpTo(MaxEstimateLen) :
              req = [kind |-> "estimate", t1 |-> t1, t2 |-> t2]
        /\ resp = None
        /\ prev = None
        /\ api_key = DEFAULT_MOCK_API_KEY
        /\ conns = <<>>

\* CompletionGenerator::estimate_tokens, ChatCompletionGenerator::estimate_tokens
\* and EmbeddingGenerator::estimate_tokens, each called on t1 and on t2
Estimate ==
    /\ req.kind = "estimate"
    /\ resp = None
    /\ resp' = Handled([completion |-> <<completion_estimate_tokens(req.t1),
                                         completion_estimate_tokens(req.t2)>>,
                        chat |-> <<chat_estimate_tokens(req.t1), chat_estimate_tokens(req.t2)>>,
                        embedding |-> <<embedding_estimate_tokens(req.t1),
                                        embedding_estimate_tokens(req.t2)>>])
    /\ prev' = resp
    /\ UNCHANGED <<now, req, api_key, conns>>

\* the three token estimators called once on two texts
SpecEstimate == InitEstimate /\ [][Estimate]_vars

MaxVecLen == 3

\* normalize_vector(&mut vector): vector any Vec<f64> of at most MaxVecLen
\* components among 0.0, -0.0, 0.5, 1.0, 3.0 and -4.0
InitNormalize ==
    LET Components == {F64Zero, F64Neg(F64Zero), F64Pow2(-1), F64Pow2(0),
                       F64FromNat(<<3>>), F64Neg(F64FromNat(<<4>>))}
    IN  /\ now = ClockAt(0)
        /\ \E len \in 0..MaxVecLen : \E vector \in [1..len -> Components] :
              req = [kind |-> "normalize", vector |-> vector]
        /\ resp = None
        /\ prev = None
        /\ api_key = DEFAULT_MOCK_API_KEY
        /\ conns = <<>>

\* one call of normalize_vector; the response is the vector it leaves
Normalize ==
    /\ req.kind = "normalize"
    /\ resp = None
    /\ resp' = Handled([returned |-> normalize_vector(req.vector)])
    /\ prev' = resp
    /\ UNCHANGED <<now, req, api_key, conns>>

\* normalize_vector called once on a vector
SpecNormalize == InitNormalize /\ [][Normalize]_vars

InitServer ==
    LET ConcurrentRequests ==
            {r \in HttpRequests :
                \/ /\ r.authorization = Some(Text("Bearer sk-mock-openai-api-key-12345"))
                   /\ \/ r.body.kind = "chat" /\ chat_validate(r.body) = Ok
                      \/ /\ r.body.kind = "completion"
                         /\ r.body.prompt = StringPrompt("Write a story")
                \/ /\ r.authorization = Some(Text("Bearer sk-test-integration-key"))
                   /\ r.body = CompletionRequest(StringPrompt("Hello"), None, Some(2))}
    IN  /\ now = ClockAt(0)
        /\ req = None
        /\ resp = None
        /\ prev = None
        /\ api_key \in {DEFAULT_MOCK_API_KEY, Text("sk-test-integration-key")}
        /\ \E first \in HttpRequests, others \in [Connections \ {1} -> ConcurrentRequests] :
              conns = [c \in Connections |->
                          [request |-> IF c = 1 THEN first ELSE others[c], pc |-> "auth",
                           calls |-> <<>>, response |-> None]]

NextServer ==
    \/ \E c \in Connections : AuthEndpoint_call(c)
    \/ \E c \in Connections : create_completion(c)
    \/ \E c \in Connections : create_chat_completion(c)
    \/ \E c \in Connections : create_embedding(c)
    \/ Tick

\* a server with one request on each connection; the middleware and the
\* handlers of the connections run in any order while the clock advances
SpecServer == InitServer /\ [][NextServer]_vars

(***************************************************************************)
(* Embedding claims                                                        *)
(***************************************************************************)
EmbeddingStrings == extract_input_strings(req.input)

EmbeddingData == resp.some.response.data

\* C1: embedding determinism. Two handlings of the same request, at any two
\* instants and whatever was handled before, return the same response, and
\* every vector in it is generate_embedding_vector of its text and the
\* dimension, computed afresh: identical component by component.
C1_EmbeddingDeterminism ==
    IsSome(resp) =>
        /\ IsSome(prev) => prev.some.response = resp.some.response
        /\ \A i \in 1..Len(EmbeddingData) :
              EmbeddingData[i].embedding =
                 generate_embedding_vector(EmbeddingStrings[i], determine_dimensions(req))

\* the request was handled at two different instants and produced at least two
\* vectors of the largest dimension drawn
C1_Witness ==
    /\ IsSome(prev) /\ IsSome(resp)
    /\ prev.some.at # resp.some.at
    /\ Len(EmbeddingData) >= 2
    /\ Len(EmbeddingData[1].embedding) = MaxDim

RECURSIVE MinExponent(_, _)
MinExponent(vector, i) ==
    IF i > Len(vector) THEN 0
    ELSE IF F64IsZero(vector[i]) THEN MinExponent(vector, i + 1)
    ELSE Min(vector[i].e, MinExponent(vector, i + 1))

\* the exact sum of the squares of the components, in units of 2^(2 * emin)
RECURSIVE ExactSumSquares(_, _, _)
ExactSumSquares(vector, emin, i) ==
    IF i > Len(vector) THEN <<>>
    ELSE LET a == BShl(vector[i].m, vector[i].e - emin)
         IN  BAdd(BMul(a, a), ExactSumSquares(vector, emin, i + 1))

\* | norm - 1 | <= 1e-9, decided exactly:
\* (10^9 - 1)^2 * 2^(-2 emin) <= N * 10^18 <= (10^9 + 1)^2 * 2^(-2 emin)
NormWithinTolerance(vector) ==
    LET emin == MinExponent(vector, 1)
        N == ExactSumSquares(vector, emin, 1)
        giga == BFromInt(1000000000)
        lhs == BMul(N, BMul(giga, giga))
        lo == BSub(giga, <<1>>)
        hi == BAdd(giga, <<1>>)
    IN  /\ emin < 0
        /\ BCmp(BShl(BMul(lo, lo), -2 * emin), lhs) <= 0
        /\ BCmp(lhs, BShl(BMul(hi, hi), -2 * emin)) <= 0

\* -1 <= x <= 1
ComponentInRange(x) ==
    F64IsZero(x) \/ (x.e <= 0 /\ BCmp(x.m, BShl(<<1>>, -x.e)) <= 0)

\* C8 as stated: every vector of a dimension d > 0 has a Euclidean norm within
\* 1e-9 of 1.0 and every component in [-1, 1].
C8_UnitNorm ==
    IsSome(resp) =>
        \A i \in 1..Len(EmbeddingData) :
            LET vector == EmbeddingData[i].embedding
            IN  Len(vector) > 0 =>
                    /\ NormWithinTolerance(vector)
                    /\ \A k \in 1..Len(vector) : ComponentInRange(vector[k])

\* the model default of the claim's table
C9_ModelDefault(model) ==
    CASE model = Text("text-embedding-ada-002") -> 1536
      [] model = Text("text-embedding-3-small") -> 1536
      [] model = Text("text-embedding-3-large") -> 3072
      [] model = Text("text-similarity-ada-001") -> 1024
      [] model = Text("text-similarity-babbage-001") -> 2048
      [] model = Text("text-similarity-curie-001") -> 4096
      [] model = Text("text-similarity-davinci-001") -> 12288
      [] OTHER -> 1536

\* C9: embedding dimensionality. Every vector of a response has the length
\* request.dimensions when it is given, whatever the model, and the model's
\* default of the table otherwise (1536 for a model not in it); all vectors of
\* one response have the same length.
C9_Dimensionality ==
    IsSome(resp) =>
        LET L == IF IsSome(req.dimensions) THEN req.dimensions.some
                 ELSE C9_ModelDefault(req.model)
        IN  \A i \in 1..Len(EmbeddingData) : Len(EmbeddingData[i].embedding) = L

\* a request without dimensions for the model with the largest default was
\* answered with a vector of that length
C9_Witness ==
    /\ IsSome(resp)
    /\ req.dimensions = None
    /\ req.model = Text("text-similarity-davinci-001")
    /\ Len(EmbeddingData) = 1
    /\ Len(EmbeddingData[1].embedding) = 12288

\* the text of the claim's record i for each kind of input
C10_RecordTexts ==
    CASE req.input.tag = "String" -> <<req.input.s>>
      [] req.input.tag = "StringArray" -> req.input.strings
      [] req.input.tag = "IntegerArray" -> <<fmt_debug_vec(req.input.ints)>>
      [] req.input.tag = "IntegerArrayArray" ->
            [i \in 1..Len(req.input.arrays) |-> fmt_debug_vec(req.input.arrays[i])]

\* C10: multi-input mapping. The data list has one entry per input record, in
\* input order, entry i (0-based) with index i and the embedding of record i's
\* text: one record for a string, k for an array of k strings, one for an
\* integer array (the text of its debug form, "[1, 2, 3, 4, 5]" for the
\* integers 1 to 5), k for a nested array of k inner arrays.
C10_MultiInputMapping ==
    IsSome(resp) =>
        /\ Len(EmbeddingData) =
              CASE req.input.tag = "String" -> 1
                [] req.input.tag = "StringArray" -> Len(req.input.strings)
                [] req.input.tag = "IntegerArray" -> 1
                [] req.input.tag = "IntegerArrayArray" -> Len(req.input.arrays)
        /\ \A i \in 1..Len(EmbeddingData) :
              /\ EmbeddingData[i].index = i - 1
              /\ EmbeddingData[i].embedding =
                    generate_embedding_vector(C10_RecordTexts[i], determine_dimensions(req))
        /\ (req.input.tag = "IntegerArray" /\ req.input.ints = <<1, 2, 3, 4, 5>>) =>
              C10_RecordTexts[1] = <<91, 49, 44, 32, 50, 44, 32, 51, 44, 32, 52, 44, 32, 53, 93>>

\* a nested array of three inner arrays was answered with three entries, and the
\* last has index 2 and a vector of the largest dimension drawn
C10_Witness ==
    /\ IsSome(resp)
    /\ req.input.tag = "IntegerArrayArray"
    /\ Len(req.input.arrays) = 3
    /\ Len(EmbeddingData) = 3
    /\ EmbeddingData[3].index = 2
    /\ Len(EmbeddingData[3].embedding) = MaxDim

(***************************************************************************)
(* Completion and chat claims                                              *)
(***************************************************************************)
Choices == resp.some.response.choices

\* req passes validate()
Validated ==
    IF req.kind = "completion" THEN completion_validate(req) = Ok
    ELSE chat_validate(req) = Ok

\* C2 as stated: completion text determinism. Two handlings of one completion
\* request, at any two instants, return choices with the same text and the same
\* finish_reason, for every category of prompt.
C2_CompletionDeterminism ==
    (req.kind = "completion" /\ IsSome(prev) /\ IsSome(resp)) =>
        /\ Len(prev.some.response.choices) = Len(Choices)
        /\ \A i \in 1..Len(Choices) :
              /\ prev.some.response.choices[i].text = Choices[i].text
              /\ prev.some.response.choices[i].finish_reason = Choices[i].finish_reason

\* C3: usage invariant. In every completion and chat response to a request that
\* passes validate(), total_tokens is prompt_tokens + completion_tokens, and
\* prompt_tokens and completion_tokens are both at least 1.
C3_UsageInvariant ==
    (req.kind \in {"completion", "chat"} /\ IsSome(resp)) =>
        LET usage == resp.some.response.usage
        IN  Validated =>
               /\ usage.total_tokens = usage.prompt_tokens + usage.completion_tokens
               /\ usage.prompt_tokens >= 1
               /\ usage.completion_tokens >= 1

\* a valid completion request was answered with an empty text (max_tokens = 1 cuts
\* the greeting at its leading space), which still counts as one token
C3_Witness ==
    /\ req.kind = "completion" /\ IsSome(resp)
    /\ Validated
    /\ Len(Choices) = 1
    /\ Choices[1].text = <<>>
    /\ resp.some.response.usage.completion_tokens = 1

\* C4: choice indexing. A completion or chat request with n = k (1 when n is
\* absent) is answered with exactly k choices, and the choice at position i,
\* counted from 0, has index i.
C4_ChoiceIndexing ==
    (req.kind \in {"completion", "chat"} /\ IsSome(resp)) =>
        /\ Len(Choices) = (IF req.n = None THEN 1 ELSE req.n.some)
        /\ \A i \in 1..Len(Choices) : Choices[i].index = i - 1

\* a completion request with the largest n drawn below the limit of validation
\* was answered
C4_Witness ==
    /\ req.kind = "completion" /\ IsSome(resp)
    /\ req.n = Some(MaxN)
    /\ Len(Choices) = MaxN
    /\ Choices[MaxN].index = MaxN - 1

\* the message carries tool calls
CarriesToolCalls(message) == message.tool_calls # None /\ message.tool_calls.some # <<>>

\* C5: finish-reason consistency for chat. In every choice of a chat response
\* finish_reason is "tool_calls" exactly if the message carries tool calls, and
\* a choice without tool calls has finish_reason "stop" or "length"; also when
\* tools is an empty list.
C5_FinishReasonConsistency ==
    (req.kind = "chat" /\ IsSome(resp)) =>
        \A i \in 1..Len(Choices) :
            /\ (Choices[i].finish_reason = "tool_calls") <=> CarriesToolCalls(Choices[i].message)
            /\ ~CarriesToolCalls(Choices[i].message) =>
                   Choices[i].finish_reason \in {"stop", "length"}

\* the content of the most recent message of role User contains one of weather,
\* search, calculate, time, in any letter case
MentionsToolKeyword ==
    LET users == {i \in 1..Len(req.messages) : req.messages[i].role = "User"}
        last == req.messages[CHOOSE i \in users : \A j \in users : j <= i]
        lower(c) == IF c \in 65..90 THEN c + 32 ELSE c
        keywords == {<<119, 101, 97, 116, 104, 101, 114>>,              \* "weather"
                     <<115, 101, 97, 114, 99, 104>>,                    \* "search"
                     <<99, 97, 108, 99, 117, 108, 97, 116, 101>>,       \* "calculate"
                     <<116, 105, 109, 101>>}                            \* "time"
    IN  /\ users # {}
        /\ last.content # None
        /\ \E w \in keywords : \E at \in 0..(Len(last.content.some) - Len(w)) :
              \A j \in 1..Len(w) : lower(last.content.some[at + j]) = w[j]

\* the tool keyword case: tools is an empty list, tool_choice is present, the
\* last user message has a tool keyword, and the answer is a content message
C5_Witness ==
    /\ req.kind = "chat" /\ IsSome(resp)
    /\ req.tools = Some(<<>>) /\ req.tool_choice # None /\ MentionsToolKeyword
    /\ Len(Choices) >= 1
    /\ Choices[1].message.content # None
    /\ Choices[1].finish_reason = "stop"

\* tools present and not empty, tool_choice present, and a tool keyword in the
\* last user message
ToolCallExpected ==
    /\ req.tools # None /\ req.tools.some # <<>>
    /\ req.tool_choice # None
    /\ MentionsToolKeyword

\* C6: tool-call decision. If tools is present and not empty, tool_choice is
\* present and the last user message has a tool keyword, every choice carries
\* exactly one tool call, of the name of tools[0], and no content (whatever the
\* text classification of the message); in every other case no choice carries a
\* tool call.
C6_ToolCallDecision ==
    (req.kind = "chat" /\ IsSome(resp)) =>
        \A i \in 1..Len(Choices) :
            IF ToolCallExpected
                THEN /\ CarriesToolCalls(Choices[i].message)
                     /\ Len(Choices[i].message.tool_calls.some) = 1
                     /\ Choices[i].message.tool_calls.some[1].function.name =
                           req.tools.some[1].function.name
                     /\ Choices[i].message.content = None
            ELSE ~CarriesToolCalls(Choices[i].message)

\* a request with two tools of different names, the largest n drawn and a last
\* user message that is a question with a tool keyword was answered
C6_Witness ==
    /\ req.kind = "chat" /\ IsSome(resp)
    /\ ToolCallExpected
    /\ Len(req.tools.some) = 2
    /\ req.tools.some[1].function.name # req.tools.some[2].function.name
    /\ req.n = Some(MaxN)
    /\ Len(Choices) = MaxN
    /\ \E i \in 1..Len(req.messages[1].content.some) : req.messages[1].content.some[i] = 63

\* the prompt of a completion request: the string, or the first element of the array
PromptText == IF req.prompt.tag = "String" THEN req.prompt.s ELSE req.prompt.strings[1]

\* C11: echo. With echo = true every choice's text is the prompt, whole (the
\* first element of an array prompt), followed by the generated completion,
\* and max_tokens (16 when absent) cuts the generated part only: the part after
\* the prompt has at most 4 * max_tokens chars and is the text the same request
\* gets at the same instant without echo. With echo absent or false the text
\* is the generated completion alone.
C11_Echo ==
    (req.kind = "completion" /\ IsSome(resp) /\ completion_validate(req) = Ok) =>
        \A i \in 1..Len(Choices) :
            LET text == Choices[i].text
                generated == generate_completion_text([req EXCEPT !.echo = Some(FALSE)])
            IN  IF unwrap_or(req.echo, FALSE)
                    THEN /\ Len(text) >= Len(PromptText)
                         /\ SubSeq(text, 1, Len(PromptText)) = PromptText
                         /\ Len(text) - Len(PromptText) <= 4 * unwrap_or(req.max_tokens, 16)
                         /\ resp.some.at = now => text = PromptText \o generated
                    ELSE resp.some.at = now => text = generated

\* an echoed prompt longer than the 4 * max_tokens chars left to the completion
C11_Witness ==
    /\ req.kind = "completion" /\ IsSome(resp) /\ completion_validate(req) = Ok
    /\ req.echo = Some(TRUE)
    /\ req.prompt.tag = "Array"
    /\ Len(PromptText) > 4 * unwrap_or(req.max_tokens, 16)
    /\ Len(Choices) >= 1
    /\ Len(Choices[1].text) > Len(PromptText)

(***************************************************************************)
(* Server claims                                                           *)
(***************************************************************************)
\* the body of the request on connection c passes validate()
ValidBody(c) ==
    LET body == conns[c].request.body
    IN  CASE body.kind = "completion" -> completion_validate(body) = Ok
          [] body.kind = "chat" -> chat_validate(body) = Ok
          [] body.kind = "embedding" -> embedding_validate(body) = Ok

\* the responses the generator gives for a body at this instant when it is
\* called on its own, one for each outcome of the uuid draws
HandledAlone(body) ==
    CASE body.kind = "completion" ->
           {completion_generate_response(body, uuids[1]) : uuids \in UuidDraws(1)}
      [] body.kind = "chat" ->
           {chat_generate_response(body, uuids) :
               uuids \in UuidDraws(unwrap_or(body.n, 1) + 1)}
      [] body.kind = "embedding" -> {embedding_generate_response(body)}

\* the inner endpoint of connection c runs in this step
HandlerStep(c) == conns[c].pc = "inner" /\ conns'[c].pc = "done"

Authorized(c) ==
    LET header == conns[c].request.authorization
    IN  /\ header # None
        /\ \A i \in 1..Len(header.some) :
              header.some[i] = 9 \/ (header.some[i] >= 32 /\ header.some[i] < 127)
        /\ Len(header.some) >= 7
        /\ SubSeq(header.some, 1, 7) = <<66, 101, 97, 114, 101, 114, 32>>    \* "Bearer "
        /\ SubSeq(header.some, 8, Len(header.some)) = api_key

\* C13: the authentication gate. Once the middleware has run for a request to
\* a protected route, the inner handler is or will be entered iff the request
\* is authorized; for every other request the response is 401 and neither the
\* handler nor validate nor the generator has been entered, whatever the body.
C13_AuthenticationGate ==
    \A c \in Connections :
        conns[c].pc # "auth" =>
            IF Authorized(c)
                THEN \/ conns[c].pc = "inner"
                     \/ /\ conns[c].pc = "done"
                        /\ Len(conns[c].calls) >= 3
                        /\ conns[c].calls[2] \in {"create_completion", "create_chat_completion",
                                                  "create_embedding"}
                        /\ conns[c].response.some.status \in {200, 400}
                ELSE /\ conns[c].pc = "done"
                     /\ conns[c].response.some.status = 401
                     /\ conns[c].calls = <<"AuthEndpoint::call">>

\* a server with a custom key has turned down the default key on a request
\* whose body passes validate, while another connection was let through
C13_Witness ==
    /\ api_key # DEFAULT_MOCK_API_KEY
    /\ \E c, d \in Connections :
          /\ conns[c].pc = "done"
          /\ conns[c].request.authorization = Some(Text("Bearer ") \o DEFAULT_MOCK_API_KEY)
          /\ ValidBody(c)
          /\ conns[c].response.some.status = 401
          /\ conns[d].pc = "done"
          /\ conns[d].response.some.status = 200

\* the handler of connection c has run
Served(c) == conns[c].pc = "done" /\ Len(conns[c].calls) >= 2

C15_RequestShape ==
    Validated =>
        /\ req.n = None \/ (1 <= req.n.some /\ req.n.some <= 20)
        /\ req.max_tokens = None \/ req.max_tokens.some > 0
        /\ IsSome(resp) => (1 <= Len(Choices) /\ Len(Choices) <= 20)

\* some text of pats is a substring of the lower-cased text
HasKeyword(text, pats) == \E pat \in pats : contains(to_lowercase(text), Text(pat))

\* the category of a text by the priority order greeting, question, code,
\* math, creative
Category(text) ==
    IF HasKeyword(text, {"hello", "hi", "hey"}) THEN "greeting"
    ELSE IF HasKeyword(text, {"?", "what", "how", "why"}) THEN "question"
    ELSE IF HasKeyword(text, {"code", "programming", "function"}) THEN "code"
    ELSE IF HasKeyword(text, {"calculate", "math", "number"}) THEN "math"
    ELSE IF HasKeyword(text, {"story", "creative", "write"}) THEN "creative"
    ELSE "none"

\* the content of the latest message of role user, if there is one and it has content
LatestUserContent ==
    LET users == {i \in 1..Len(req.messages) : req.messages[i].role = "User"}
    IN  IF users = {} THEN None
        ELSE req.messages[CHOOSE i \in users : \A j \in users : j <= i].content

\* the canned response of a category: the one a message made of a keyword of
\* that category alone is answered with
ResponseOf(category, text) ==
    CASE category = "greeting" -> get_greeting_response
      [] category = "question" -> get_question_response(to_lowercase(text))
      [] category = "code" -> generate_contextual_response(Text("code"), req.model)
      [] category = "math" -> generate_contextual_response(Text("math"), req.model)
      [] category = "creative" -> generate_contextual_response(Text("story"), req.model)
      [] category = "none" -> generate_contextual_response(Text("general"), req.model)

\* C16: chat classifier priority. The content of a chat choice without a tool
\* call is the canned response of the category of the latest user message's
\* content, the categories being tested in the order greeting, question, code,
\* math, creative, case-insensitively, first match wins; with no match it is
\* the advanced response for a model whose name contains "gpt-4" and the
\* general response otherwise (the two differ); and it is the default response
\* when there is no such content.
C16_ChatClassifierPriority ==
    (req.kind = "chat" /\ IsSome(resp)) =>
        \A i \in 1..Len(Choices) :
            ~CarriesToolCalls(Choices[i].message) =>
                /\ Choices[i].message.content =
                     Some(IF LatestUserContent = None
                              THEN generate_assistant_content(<<>>, req.model)
                              ELSE ResponseOf(Category(LatestUserContent.some),
                                              LatestUserContent.some))
                /\ (LatestUserContent # None /\ Category(LatestUserContent.some) = "none") =>
                      /\ Choices[i].message.content.some[1] =
                           (IF contains(req.model, Text("gpt-4")) THEN 65 ELSE 73)   \* "A", "I"

\* a message with a creative, a question and a code keyword, answered as a question
C16_Witness ==
    /\ req.kind = "chat" /\ IsSome(resp)
    /\ LatestUserContent = Some(Text("How to write code"))
    /\ Len(Choices) >= 1
    /\ ~CarriesToolCalls(Choices[1].message)
    /\ Choices[1].message.content = Some(get_question_response(Text("how")))

\* C17 as stated: completion classifier priority. The generated part of every
\* choice of a completion request comes from the pool of the prompt's category,
\* the categories being tested in the order of the chat classifier (greeting,
\* question, code, math, creative, and the general pool when none matches); a
\* prompt with a code keyword and a creative keyword, such as "Write a
\* function", is answered from the code pool.
C17_CompletionClassifierPriority ==
    (req.kind = "completion" /\ IsSome(resp) /\ completion_validate(req) = Ok
        /\ resp.some.at = now) =>
        \A i \in 1..Len(Choices) :
            LET text == Choices[i].text
                generated == IF unwrap_or(req.echo, FALSE)
                                 THEN SubSeq(text, Len(PromptText) + 1, Len(text))
                                 ELSE text
                max_tokens == unwrap_or(req.max_tokens, 16)
                category == Category(PromptText)
            IN  /\ category = "greeting" =>
                      generated = get_greeting_completion(PromptText, max_tokens)
                /\ category = "question" =>
                      generated = get_explanatory_completion(PromptText, max_tokens)
                /\ category = "code" => generated = get_code_completion(PromptText, max_tokens)
                /\ category = "creative" =>
                      generated = get_creative_completion(PromptText, max_tokens)
                /\ category = "none" => generated = get_general_completion(PromptText, max_tokens)

\* some configured stop sequence of the request is a substring of text
StopSequenceIn(text) ==
    /\ req.stop # None
    /\ IF req.stop.some.tag = "String" THEN contains(text, req.stop.some.s)
       ELSE \E i \in 1..Len(req.stop.some.strings) : contains(text, req.stop.some.strings[i])

\* C18: the completion finish-reason policy. For every completion choice
\* finish_reason is "stop" if a configured stop sequence (the single string,
\* or any element of the array) is a substring of the choice text; otherwise
\* it is "length" if the token count estimated for the text, which
\* determine_finish_reason takes as floor(len(text) / 4), is >= max_tokens (16
\* when absent), and "stop" otherwise. The stop test comes first and nothing
\* but "stop" and "length" is returned.
C18_FinishReasonPolicy ==
    (req.kind = "completion" /\ IsSome(resp)) =>
        \A i \in 1..Len(Choices) :
            /\ Choices[i].finish_reason \in {"stop", "length"}
            /\ Choices[i].finish_reason =
                  IF StopSequenceIn(Choices[i].text) THEN "stop"
                  ELSE IF Len(Choices[i].text) \div 4 >= unwrap_or(req.max_tokens, 16)
                      THEN "length"
                  ELSE "stop"

\* a text as long as the budget that holds the second stop sequence of an
\* array, and so finishes with "stop"
C18_Witness ==
    /\ req.kind = "completion" /\ IsSome(resp)
    /\ req.stop # None /\ req.stop.some.tag = "Array"
    /\ Len(req.stop.some.strings) >= 2
    /\ Len(Choices) >= 1
    /\ Len(Choices[1].text) \div 4 >= unwrap_or(req.max_tokens, 16)
    /\ ~contains(Choices[1].text, req.stop.some.strings[1])
    /\ StopSequenceIn(Choices[1].text)
    /\ Choices[1].finish_reason = "stop"

\* C19 as stated: truncation. For every text and every max_tokens,
\* truncate_to_tokens(text, max_tokens) returns a prefix of text of at most
\* 4 * max_tokens chars: text itself when len(text) <= 4 * max_tokens, and
\* otherwise the first 4 * max_tokens chars cut before their last space, or
\* all of them when there is no space among them. (4 * max_tokens is the
\* product of integers: len <= 4 * max_tokens iff ceil(len / 4) <= max_tokens.)
C19_Truncation ==
    (req.kind = "truncate" /\ IsSome(resp)) =>
        /\ "returned" \in DOMAIN resp.some.response
        /\ LET text == req.text
               out == resp.some.response.returned
           IN  /\ Len(out) <= Len(text)
               /\ out = SubSeq(text, 1, Len(out))
               /\ (Len(out) + 3) \div 4 <= req.max_tokens
               /\ IF (Len(text) + 3) \div 4 <= req.max_tokens THEN out = text
                  ELSE LET window == SubSeq(text, 1, 4 * req.max_tokens)
                           spaces == {i \in 1..Len(window) : window[i] = 32}
                       IN  IF spaces = {} THEN out = window
                           ELSE out = SubSeq(text, 1,
                                             (CHOOSE i \in spaces : \A j \in spaces : j <= i) - 1)

\* C20 as stated: the chat output length cap. For every chat request with
\* max_tokens set that passes validate, the content of the message of every
\* choice without a tool call has at most max_tokens * 4 chars.
C20_ChatOutputCap ==
    (req.kind = "chat" /\ IsSome(resp) /\ chat_validate(req) = Ok /\ req.max_tokens # None) =>
        \A i \in 1..Len(Choices) :
            ~CarriesToolCalls(Choices[i].message) =>
                Len(Choices[i].message.content.some) <= req.max_tokens.some * 4

\* the canned response selected for the request at this instant, uncut: the
\* text generated without echo under the largest budget validate() admits,
\* which is longer than every canned response
SelectedResponse ==
    generate_completion_text([req EXCEPT !.max_tokens = Some(4096), !.echo = None])

\* C21 as stated: truncation is reported. For every completion request with
\* echo off and every choice whose text holds no stop sequence: when the
\* canned response selected for the choice is longer than 4 * max_tokens
\* chars (16 when absent) the finish_reason is "length", and "stop" is
\* returned only for the whole canned response.
C21_TruncationReported ==
    (/\ req.kind = "completion" /\ IsSome(resp) /\ resp.some.at = now
     /\ ~unwrap_or(req.echo, FALSE)) =>
        \A i \in 1..Len(Choices) :
            ~StopSequenceIn(Choices[i].text) =>
                /\ Len(SelectedResponse) > 4 * unwrap_or(req.max_tokens, 16) =>
                      Choices[i].finish_reason = "length"
                /\ Choices[i].finish_reason = "stop" => Choices[i].text = SelectedResponse

\* C22 as stated: non-empty completion text. For every completion request
\* that passes validate() (so max_tokens is absent or between 1 and 4096) and
\* every prompt category, the text of every choice is a non-empty string.
C22_NonEmptyText ==
    (req.kind = "completion" /\ IsSome(resp) /\ completion_validate(req) = Ok) =>
        \A i \in 1..Len(Choices) : Choices[i].text # <<>>

\* the token estimate of the output of one choice alone: of its text for a
\* completion, of its content and tool-call names and arguments for chat
ChoiceTokens(choice) ==
    IF req.kind = "completion" THEN completion_estimate_tokens(choice.text)
    ELSE estimate_completion_tokens(<<choice>>)

\* C23 as stated: usage aggregation is a sum over choices. In every completion
\* response and every chat response, usage.completion_tokens is the sum, over
\* the returned choices, of the token estimate of that single choice's output.
C23_UsageIsSumOverChoices ==
    (req.kind \in {"completion", "chat"} /\ IsSome(resp)) =>
        LET RECURSIVE SumTokens(_)
            SumTokens(k) == IF k = 0 THEN 0 ELSE SumTokens(k - 1) + ChoiceTokens(Choices[k])
        IN  resp.some.response.usage.completion_tokens = SumTokens(Len(Choices))

\* C24 as stated: the token estimator formula. For completions and for chat
\* the token estimate of a text of byte length L is
\* max(1, floor(L / 4)) + (L mod 3).
C24_TokenEstimatorFormula ==
    (req.kind = "estimate" /\ IsSome(resp)) =>
        LET L == Len(req.t1)
            estimate == Max(1, L \div 4) + (L % 3)
        IN  /\ resp.some.response.completion[1] = estimate
            /\ resp.some.response.chat[1] = estimate

\* C25 as stated: token estimate ordering. For the completion estimator and
\* for the embedding estimator a longer text never gets a smaller estimate:
\* for all texts t1, t2 with len(t1) <= len(t2),
\* estimate_tokens(t1) <= estimate_tokens(t2); and the estimate of every
\* non-empty text is at least 1.
C25_TokenEstimateOrdering ==
    (req.kind = "estimate" /\ IsSome(resp)) =>
        \A estimates \in {resp.some.response.completion, resp.some.response.embedding} :
            /\ Len(req.t1) <= Len(req.t2) => estimates[1] <= estimates[2]
            /\ req.t1 # <<>> => estimates[1] >= 1

\* 5381 * 33^i + the bytes of the first i bytes of text weighted by powers of
\* 33, in unbounded integer arithmetic
RECURSIVE UnboundedHash(_, _)
UnboundedHash(text, i) ==
    IF i = 0 THEN BFromInt(5381)
    ELSE BAdd(BMulSmall(UnboundedHash(text, i - 1), 33), BFromInt(text[i]))

\* the generator state after component j - 1 (0-based) from the seed, every
\* step taken in unbounded integer arithmetic and reduced modulo 2^31
RECURSIVE ReferenceState(_, _)
ReferenceState(seed, j) ==
    IF j = 0 THEN seed
    ELSE BLow(BAdd(BAdd(BMul(ReferenceState(seed, j - 1), BFromInt(1103515245)),
                        BFromInt(12345)),
                   BFromInt(j - 1)),
              31)

\* C26: seed and generator arithmetic match the reference. For every text t of
\* a handled request, hash_string(t) is the value obtained from 5381 by
\* replacing, for each byte b of t in order, seed by (seed * 33 + b) mod 2^64;
\* the generator starts from that seed and for component i = 0 .. d - 1
\* replaces state by (state * 1103515245 + 12345 + i) mod 2^31, the 64-bit
\* wrapping of the code giving what unbounded arithmetic reduced mod 2^31
\* gives; every state that produces a component lies in [0, 2^31).
C26_SeedAndGeneratorArithmetic ==
    (req.kind = "embedding" /\ IsSome(resp)) =>
        \A k \in 1..Len(EmbeddingStrings) :
            LET t == EmbeddingStrings[k]
                d == determine_dimensions(req)
                seed == BLow(UnboundedHash(t, Len(t)), 64)
            IN  /\ hash_string(t) = seed
                /\ d >= 1 =>
                      \A j \in 1..d :
                          /\ rng_states(hash_string(t), 0, d)[j] = ReferenceState(seed, j)
                          /\ BCmp(rng_states(hash_string(t), 0, d)[j], BShl(<<1>>, 31)) < 0

\* a handled text whose hash passes 2^64 in unbounded arithmetic, so that the
\* u64 seed and the product of the first step both wrap, with the largest
\* dimension drawn
C26_Witness ==
    /\ req.kind = "embedding" /\ IsSome(resp)
    /\ Len(EmbeddingStrings) >= 1
    /\ BBits(UnboundedHash(EmbeddingStrings[1], Len(EmbeddingStrings[1]))) > 64
    /\ BBits(BMul(hash_string(EmbeddingStrings[1]), BFromInt(1103515245))) > 64
    /\ Len(EmbeddingData) >= 1
    /\ Len(EmbeddingData[1].embedding) = MaxDim

\* the arguments the rules give for a function name: the first of weather,
\* search, calculate, time found in the lower-cased name decides
ArgumentsOf(function_name) ==
    IF HasKeyword(function_name, {"weather"}) THEN Text("{\"location\": \"San Francisco, CA\"}")
    ELSE IF HasKeyword(function_name, {"search"})
        THEN Text("{\"query\": \"artificial intelligence\"}")
    ELSE IF HasKeyword(function_name, {"calculate"}) THEN Text("{\"expression\": \"2 + 2\"}")
    ELSE IF HasKeyword(function_name, {"time"}) THEN Text("{\"timezone\": \"UTC\"}")
    ELSE Text("{}")

\* C27: tool argument synthesis. The arguments string of a synthesized tool
\* call is chosen from the lower-cased function name by the first rule that
\* matches, in the order weather, search, calculate, time, and is {} when
\* none matches; the function name of the call is the name declared by the
\* first tool of the request, unchanged (original case).
C27_ToolArgumentSynthesis ==
    (req.kind = "chat" /\ IsSome(resp)) =>
        \A i \in 1..Len(Choices) :
            CarriesToolCalls(Choices[i].message) =>
                \A c \in 1..Len(Choices[i].message.tool_calls.some) :
                    LET call == Choices[i].message.tool_calls.some[c]
                    IN  /\ call.function.name = req.tools.some[1].function.name
                        /\ call.function.arguments = ArgumentsOf(call.function.name)

\* a call of a function whose mixed-case name holds both "search" and
\* "weather", search first: the weather rule decides
C27_Witness ==
    /\ req.kind = "chat" /\ IsSome(resp)
    /\ Len(Choices) >= 1
    /\ CarriesToolCalls(Choices[1].message)
    /\ Choices[1].message.tool_calls.some[1].function.name = Text("Search_Weather")
    /\ Choices[1].message.tool_calls.some[1].function.arguments =
          Text("{\"location\": \"San Francisco, CA\"}")

\* C28 as stated: tool_choice "none" disables tool calls. For every chat
\* request whose tool_choice is the string "none", no choice of the response
\* carries a tool call and no choice has finish_reason "tool_calls", whatever
\* tools are declared and whatever the last user message holds.
C28_ToolChoiceNone ==
    (/\ req.kind = "chat" /\ IsSome(resp)
     /\ req.tool_choice = Some([tag |-> "None", s |-> "none"])) =>
        \A i \in 1..Len(Choices) :
            /\ ~CarriesToolCalls(Choices[i].message)
            /\ Choices[i].finish_reason # "tool_calls"

\* what the claim is about in a chat choice: the content, the function name
\* and arguments of each tool call, and the finish_reason
ChoiceValues(choice) ==
    [content |-> choice.message.content,
     calls |-> IF choice.message.tool_calls = None THEN None
               ELSE Some([c \in 1..Len(choice.message.tool_calls.some) |->
                            choice.message.tool_calls.some[c].function]),
     finish_reason |-> choice.finish_reason]

\* the request that keeps of req only the content of the most recent user
\* message, the model, the presence and the first element of tools, the
\* presence of tool_choice, and max_tokens
FrameRequest ==
    [kind |-> "chat", model |-> req.model,
     messages |-> IF LatestUserContent = None THEN <<>>
                  ELSE <<ChatMessage("User", LatestUserContent)>>,
     temperature |-> None, top_p |-> None, n |-> None, max_tokens |-> req.max_tokens,
     presence_penalty |-> None, frequency_penalty |-> None,
     tools |-> IF req.tools = None \/ req.tools.some = <<>> THEN req.tools
               ELSE Some(<<req.tools.some[1]>>),
     tool_choice |-> IF req.tool_choice = None THEN None
                     ELSE Some([tag |-> "Auto", s |-> "auto"])]

\* C29: chat content determinism and frame. The content, the tool-call
\* function name and arguments, and the finish_reason of a chat choice are a
\* function of the content of the most recent user message, the model, the
\* presence and first element of tools, the presence of tool_choice and
\* max_tokens alone: every choice of the latest response and of the response
\* before it, whenever they were produced, carries the values that the
\* request reduced to these carries now, so that requests that agree on
\* them get the same values at any time, and all n choices of one response
\* are alike.
C29_ChatDeterminismAndFrame ==
    (req.kind = "chat" /\ IsSome(resp)) =>
        LET expected ==
                ChoiceValues(chat_generate_response(FrameRequest,
                                                    <<"uuid_c", "uuid_d">>).choices[1])
        IN  /\ \A i \in 1..Len(Choices) : ChoiceValues(Choices[i]) = expected
            /\ IsSome(prev) =>
                  \A i \in 1..Len(prev.some.response.choices) :
                      ChoiceValues(prev.some.response.choices[i]) = expected

\* a conversation handled at two instants whose first user message has a tool
\* keyword and whose most recent one, after an assistant message, has none:
\* with tools and tool_choice present the choice is a content message
C29_Witness ==
    /\ req.kind = "chat" /\ IsSome(resp) /\ IsSome(prev)
    /\ prev.some.at # resp.some.at
    /\ Len(req.messages) >= 3
    /\ req.messages[1].role = "User"
    /\ req.messages[1].content # LatestUserContent
    /\ req.tools # None /\ req.tools.some # <<>> /\ req.tool_choice # None
    /\ Len(Choices) >= 1
    /\ ~CarriesToolCalls(Choices[1].message)
    /\ Choices[1].finish_reason = "stop"

\* C30: degenerate normalization. normalize_vector divides every component by
\* the Euclidean norm exactly when the norm is strictly greater than zero;
\* when the norm is zero, which is when all components are zero or the vector
\* is empty, the vector is returned unchanged: the call returns a vector of
\* the same length in every case, and none of its components is the outcome
\* of a division by zero.
C30_DegenerateNormalization ==
    (req.kind = "normalize" /\ IsSome(resp)) =>
        LET vector == req.vector
            out == resp.some.response.returned
            norm == F64Sqrt(sum_squares(F64Zero, vector, 1, Len(vector)))
            degenerate == \A i \in 1..Len(vector) : F64IsZero(vector[i])
        IN  /\ DOMAIN out = DOMAIN vector
            /\ degenerate <=> ~F64Gt(norm, F64Zero)
            /\ degenerate => out = vector
            /\ ~degenerate => \A i \in 1..Len(vector) : out[i] = F64Div(vector[i], norm)
            /\ \A i \in 1..Len(out) : out[i].e < 1024

\* the vector of MaxVecLen zeros, of both signs, was handed in and returned
C30_Witness ==
    /\ req.kind = "normalize" /\ IsSome(resp)
    /\ Len(req.vector) = MaxVecLen
    /\ \A i \in 1..Len(req.vector) : F64IsZero(req.vector[i])
    /\ req.vector[1] = F64Neg(F64Zero)
    /\ resp.some.response.returned = req.vector

=============================================================================
